---- MODULE Spec2Model ----
(***************************************************************************)
(* Model of the one-way ANOVA engine of backend/services/anova.py          *)
(* (AnovaAnalyzer.analyze and its helpers).                                *)
(*                                                                         *)
(* Numbers.  A Python/numpy float is modelled exactly, as a normalised     *)
(* ratio <<n, d>> with d >= 0: d > 0 is the finite value n/d, <<1, 0>> is  *)
(* +inf, <<-1, 0>> is -inf and <<0, 0>> is NaN, so that x/0 behaves as in  *)
(* IEEE arithmetic (rounding is not modelled).  A cell of the data matrix  *)
(* is <<>> (NaN, a missing value) or <<v>> (the integer value v).          *)
(*                                                                         *)
(* Library routines.  scipy's f_oneway and ttest_ind compute their         *)
(* statistic from sums of squares; the p-value of a finite, non-zero       *)
(* statistic is the tail of an F or t distribution, which the model leaves *)
(* open: any k/PDen in [0, 1].  statsmodels' multipletests(fdr_bh) is      *)
(* modelled step by step (sort, step-up reject mask, reversed running      *)
(* minimum, clamp at 1, unsort).                                           *)
(***************************************************************************)
EXTENDS Integers, Sequences, FiniteSets, TLC

\* p-values left open by the model are the multiples of 1/PDen in [0, 1]
PDen == 3
\* largest number of variables (columns) of an analysed matrix
MaxVars == 3

----------------------------------------------------------------------------
(* Exact floats *)

Abs(x) == IF x < 0 THEN 0 - x ELSE x

Sign(x) == IF x < 0 THEN 0 - 1 ELSE IF x > 0 THEN 1 ELSE 0

RECURSIVE GCD(_, _)
GCD(a, b) == IF b = 0 THEN a ELSE GCD(b, a % b)

Flt(n, d) ==
    IF d = 0 THEN <<Sign(n), 0>>
    ELSE LET g == GCD(Abs(n), Abs(d))
         IN  <<(Sign(d) * n) \div g, Abs(d) \div g>>

NaN == <<0, 0>>

Zero == <<0, 1>>

One == <<1, 1>>

FInt(v) == <<v, 1>>

isnan(x) == x = NaN

IsFinite(x) == x[2] > 0

FAdd(x, y) == Flt(x[1] * y[2] + y[1] * x[2], x[2] * y[2])

FSub(x, y) == Flt(x[1] * y[2] - y[1] * x[2], x[2] * y[2])

FMul(x, y) == Flt(x[1] * y[1], x[2] * y[2])

FDiv(x, y) == Flt(x[1] * y[2], x[2] * y[1])

\* x <= y; False when either side is NaN
FLe(x, y) == ~isnan(x) /\ ~isnan(y) /\ x[1] * y[2] <= y[1] * x[2]

FLt(x, y) == ~isnan(x) /\ ~isnan(y) /\ x[1] * y[2] < y[1] * x[2]

FMin(x, y) == IF FLe(x, y) THEN x ELSE y

----------------------------------------------------------------------------
(* numpy helpers *)

RECURSIVE SortedSeqOf(_)
SortedSeqOf(S) ==
    IF S = {} THEN <<>>
    ELSE LET m == CHOOSE x \in S : \A y \in S : x <= y
         IN  <<m>> \o SortedSeqOf(S \ {m})

\* np.unique: the sorted distinct values
unique(seq) == SortedSeqOf({seq[k] : k \in DOMAIN seq})

RECURSIVE SeqSum(_)
SeqSum(s) == IF s = <<>> THEN 0 ELSE Head(s) + SeqSum(Tail(s))

RECURSIVE FSeqSum(_)
FSeqSum(s) == IF s = <<>> THEN Zero ELSE FAdd(Head(s), FSeqSum(Tail(s)))

\* np.mean of a sequence of integers (NaN for the empty sequence)
mean(g) == Flt(SeqSum(g), Len(g))

\* sum((g - m)**2)
SumSqDev(g, m) ==
    FSeqSum([k \in 1..Len(g) |-> LET dv == FSub(FInt(g[k]), m) IN FMul(dv, dv)])

\* rows of one column that hold a value, as <<value, class>> pairs (the mask
\* ~np.isnan(var_data) applied to the column and to the labels)
CleanRows(var_data, cls) ==
    LET rows == [s \in 1..Len(var_data) |-> <<var_data[s], cls[s]>>]
        kept == SelectSeq(rows, LAMBDA r : r[1] # <<>>)
    IN  [k \in 1..Len(kept) |-> <<kept[k][1][1], kept[k][2]>>]

\* var_clean[class_clean == c]
GroupOf(clean, c) ==
    LET sel == SelectSeq(clean, LAMBDA r : r[2] = c)
    IN  [k \in 1..Len(sel) |-> sel[k][1]]

----------------------------------------------------------------------------
(* scipy.stats *)

\* the values a tail probability (F or t distribution) may take for a
\* statistic: NaN for NaN, 0 for an infinite statistic, 1 for a statistic of
\* 0, and any multiple of 1/PDen in [0, 1] otherwise
TailProbs(stat) ==
    IF isnan(stat) THEN {NaN}
    ELSE IF stat[2] = 0 THEN {Zero}
    ELSE IF stat[1] = 0 THEN {One}
    ELSE {Flt(k, PDen) : k \in 0..PDen}

RECURSIVE Concat(_)
Concat(groups) ==
    IF groups = <<>> THEN <<>> ELSE Head(groups) \o Concat(Tail(groups))

\* the F statistic of stats.f_oneway(*groups): (ssbn / dfbn) / (sswn / dfwn)
f_statistic(groups) ==
    LET alldata == Concat(groups)
        k == Len(groups)
        grand == mean(alldata)
        ssbn == FSeqSum([j \in 1..k |->
                    LET dv == FSub(mean(groups[j]), grand)
                    IN  FMul(FInt(Len(groups[j])), FMul(dv, dv))])
        sswn == FSeqSum([j \in 1..k |-> SumSqDev(groups[j], mean(groups[j]))])
        msb == FDiv(ssbn, FInt(k - 1))
        msw == FDiv(sswn, FInt(Len(alldata) - k))
    IN  FDiv(msb, msw)

\* stats.f_oneway(*groups): the possible <<f_stat, p_val>>
f_oneway(groups) ==
    {<<f_statistic(groups), p>> : p \in TailProbs(f_statistic(groups))}

\* the t statistic of stats.ttest_ind(a, b) (pooled variance), kept exactly
\* as its sign and its square: t = sign * sqrt(square)
t_statistic(a, b) ==
    LET dv == FSub(mean(a), mean(b))
        svar == FDiv(FAdd(SumSqDev(a, mean(a)), SumSqDev(b, mean(b))),
                     FInt(Len(a) + Len(b) - 2))
        denom2 == FMul(svar, FAdd(Flt(1, Len(a)), Flt(1, Len(b))))
    IN  [sign |-> Sign(dv[1]), square |-> FDiv(FMul(dv, dv), denom2)]

\* stats.ttest_ind(a, b): the possible <<t_stat, p_val>>
ttest_ind(a, b) ==
    {<<t_statistic(a, b), p>> : p \in TailProbs(t_statistic(a, b).square)}

\* the float 0.0 as a t statistic
TZero == [sign |-> 0, square |-> Zero]

----------------------------------------------------------------------------
(* statsmodels.stats.multitest.multipletests(pvals, alpha, method='fdr_bh') *)

\* np.argsort(pvals): a permutation that sorts pvals ascending; the order of
\* tied entries is not fixed
ArgSorts(pvals) ==
    {s \in Permutations(1..Len(pvals)) :
        \A k \in 1..(Len(pvals) - 1) : FLe(pvals[s[k]], pvals[s[k + 1]])}

\* fdr_reject with the ranks counted from 0 (ecdffactor = arange(n) / n)
fdr_reject_zero_based(ps, alpha) ==
    LET n == Len(ps)
        reject == [k \in 1..n |-> FLe(ps[k], FMul(Flt(k - 1, n), alpha))]
        hits == {k \in 1..n : reject[k]}
        rejectmax == CHOOSE m \in hits : \A k \in hits : k <= m
    IN  IF hits = {} THEN reject
        ELSE [k \in 1..n |-> reject[k] \/ k < rejectmax]

\* fdr_reject without the step-up: only the ranks that pass their own bound
fdr_reject_no_step_up(ps, alpha) ==
    [k \in 1..Len(ps) |-> FLe(ps[k], FMul(Flt(k, Len(ps)), alpha))]

\* fdrcorrection: reject = pvals_sorted <= ecdffactor * alpha, then every rank
\* below the largest rejected rank is rejected too
fdr_reject(ps, alpha) ==
    LET n == Len(ps)
        reject == [k \in 1..n |-> FLe(ps[k], FMul(Flt(k, n), alpha))]
        hits == {k \in 1..n : reject[k]}
        rejectmax == CHOOSE m \in hits : \A k \in hits : k <= m
    IN  IF hits = {} THEN reject
        ELSE [k \in 1..n |-> reject[k] \/ k < rejectmax]

RECURSIVE CumMin(_, _)
\* np.minimum.accumulate(raw) at position k
CumMin(raw, k) == IF k = 1 THEN raw[k] ELSE FMin(raw[k], CumMin(raw, k - 1))

\* fdr_adjust without the running minimum
fdr_adjust_raw(ps) ==
    LET n == Len(ps)
        raw == [k \in 1..n |-> FDiv(ps[k], Flt(k, n))]
    IN  [k \in 1..n |-> IF FLt(One, raw[k]) THEN One ELSE raw[k]]

\* fdr_adjust with the running minimum taken from the first rank upwards
fdr_adjust_forward(ps) ==
    LET n == Len(ps)
        raw == [k \in 1..n |-> FDiv(ps[k], Flt(k, n))]
    IN  [k \in 1..n |->
            LET c == CumMin(raw, k) IN IF FLt(One, c) THEN One ELSE c]

RECURSIVE RevCumMin(_, _)
\* np.minimum.accumulate(raw[::-1])[::-1] at position k
RevCumMin(raw, k) ==
    IF k = Len(raw) THEN raw[k] ELSE FMin(raw[k], RevCumMin(raw, k + 1))

\* fdrcorrection: pvals_sorted / ecdffactor, reversed running minimum, and
\* values above 1 set to 1
fdr_adjust(ps) ==
    LET n == Len(ps)
        raw == [k \in 1..n |-> FDiv(ps[k], Flt(k, n))]
    IN  [k \in 1..n |->
            LET c == RevCumMin(raw, k) IN IF FLt(One, c) THEN One ELSE c]

\* the result in the caller's order, for one sorting permutation
multipletests_by(pvals, alpha, sortind) ==
    LET n == Len(pvals)
        ps == [k \in 1..n |-> pvals[sortind[k]]]
        rej == fdr_reject(ps, alpha)
        adj == fdr_adjust(ps)
        pos(j) == CHOOSE k \in 1..n : sortind[k] = j
    IN  [reject |-> [j \in 1..n |-> rej[pos(j)]],
         pvals_corrected |-> [j \in 1..n |-> adj[pos(j)]]]

\* the possible results of multipletests(pvals, alpha=alpha, method='fdr_bh')
multipletests(pvals, alpha) ==
    {multipletests_by(pvals, alpha, s) : s \in ArgSorts(pvals)}

\* the default alpha of multipletests, used when the caller passes none
DefaultAlpha == Flt(1, 20)

----------------------------------------------------------------------------
(* AnovaAnalyzer *)

VARIABLES
    pc,                     \* where analyze is: "sweep", "correct", "select"
    fdr_threshold,          \* self.fdr_threshold
    data,                   \* the data matrix, as the sequence of its columns
    classes,                \* the class label of each sample
    i,                      \* the column the per-variable loop is at
    p_values,
    f_statistics,
    effect_sizes,
    all_multicomparisons,
    bonferroni_sig,
    benjamini_sig,
    fdr_corrected,
    results_table,
    plot_option,            \* the policy code passed to analyze
    significant_vars,
    bundle,                 \* the dict analyze returns; <<>> before it returns
    faults,                 \* the library routines that raise an unexpected
                            \* exception when called during this run
    series,                 \* the class column of the uploaded file: its
                            \* dtype and its values, one per row
    other,                  \* a second request in flight, suspended: its
                            \* analyzer and locals
    client,                 \* ai_assistant.client is set
    _memory_fallback,       \* ai_assistant._memory_fallback, a dict by key
    history_log,            \* per file, every message added since the file
                            \* was last cleared (history variable)
    chat_result             \* the last call on ai_assistant and its result

vars == <<pc, fdr_threshold, data, classes, i, p_values, f_statistics,
          effect_sizes, all_multicomparisons, bonferroni_sig, benjamini_sig,
          fdr_corrected, results_table, plot_option, significant_vars, bundle,
          faults, series, other, client, _memory_fallback, history_log,
          chat_result>>

assistant_vars == <<client, _memory_fallback, history_log, chat_result>>

\* the assistant has not been called
NoAssistant ==
    /\ client = FALSE
    /\ _memory_fallback = <<>>
    /\ history_log = <<>>
    /\ chat_result = <<>>

n_vars == Len(data)

n_samples == Len(classes)

RECURSIVE PairsFrom(_, _, _)
PairsFrom(a, b, n) ==
    IF a >= n THEN <<>>
    ELSE IF b > n THEN PairsFrom(a + 1, a + 2, n)
    ELSE <<(<<a, b>>)>> \o PairsFrom(a, b + 1, n)

\* the pairs of the nested loops taken from the last to the first
LoopPairs_reversed(n) ==
    [k \in 1..Len(PairsFrom(1, 2, n)) |->
        PairsFrom(1, 2, n)[Len(PairsFrom(1, 2, n)) + 1 - k]]

\* the (i, j) of the two nested loops over range(len(unique_classes))
LoopPairs(n) == PairsFrom(1, 2, n)

\* p_or_one without the NaN test
p_unchecked(p_val) == p_val

\* p_val if not np.isnan(p_val) else 1.0
p_or_one(p_val) == IF isnan(p_val) THEN One ELSE p_val

\* float(f_stat) if not np.isnan(f_stat) else 0.0
f_or_zero(f_stat) == IF isnan(f_stat) THEN Zero ELSE f_stat

\* float(t_stat) if not np.isnan(t_stat) else 0.0
t_or_zero(t_stat) == IF isnan(t_stat.square) THEN TZero ELSE t_stat

\* group_i / group_j of _perform_multcompare: the values of one class in one
\* column, NaNs removed
class_values(var_data, cls, c) == GroupOf(CleanRows(var_data, cls), c)

\* one pass of the loop body for the classes cls_i, cls_j: nothing when a
\* group holds fewer than 2 values or when the t test raises (the except
\* clause logs and continues), else the possible comparison records
compare_pair(var_data, cls, cls_i, cls_j) ==
    LET group_i == class_values(var_data, cls, cls_i)
        group_j == class_values(var_data, cls, cls_j)
    IN  IF Len(group_i) < 2 \/ Len(group_j) < 2 THEN {<<>>}
        ELSE IF "ttest_ind" \in faults THEN {<<>>}
        ELSE {<<[groupX |-> cls_i,
                 groupY |-> cls_j,
                 pValue |-> p_or_one(r[2]),
                 mean_diff |-> FSub(mean(group_i), mean(group_j)),
                 tStat |-> t_or_zero(r[1])]>> : r \in ttest_ind(group_i, group_j)}

RECURSIVE compare_pairs(_, _, _)
\* the comparisons lists the nested loops may build over the given index pairs
compare_pairs(var_data, cls, pairs) ==
    IF pairs = <<>> THEN {<<>>}
    ELSE LET unique_classes == unique(cls)
             pr == pairs[Len(pairs)]
         IN  {done \o one :
                 done \in compare_pairs(var_data, cls, SubSeq(pairs, 1, Len(pairs) - 1)),
                 one \in compare_pair(var_data, cls, unique_classes[pr[1]],
                                      unique_classes[pr[2]])}

\* the FDR pass of _perform_multcompare over the comparisons of one variable
pairwise_fdr(comparisons) ==
    IF comparisons = <<>> THEN {comparisons}
    ELSE LET p_vals == [k \in 1..Len(comparisons) |-> comparisons[k].pValue]
         IN  {[k \in 1..Len(comparisons) |->
                  [groupX |-> comparisons[k].groupX,
                   groupY |-> comparisons[k].groupY,
                   pValue |-> comparisons[k].pValue,
                   mean_diff |-> comparisons[k].mean_diff,
                   tStat |-> comparisons[k].tStat,
                   pValue_FDR |-> mt.pvals_corrected[k]]] :
              mt \in multipletests(p_vals, DefaultAlpha)}

\* _perform_multcompare with the q-values of a variable corrected once more
\* for the number of variables of the matrix
_perform_multcompare_across(d, cls, var_idx) ==
    LET scaled(q) == LET c == FMul(q, FInt(Len(d)))
                     IN  IF FLt(One, c) THEN One ELSE c
        lists == UNION {pairwise_fdr(comparisons) :
                           comparisons \in compare_pairs(d[var_idx], cls,
                                                         LoopPairs(Len(unique(cls))))}
    IN  {[e \in 1..Len(mc) |->
             [groupX |-> mc[e].groupX,
              groupY |-> mc[e].groupY,
              pValue |-> mc[e].pValue,
              mean_diff |-> mc[e].mean_diff,
              tStat |-> mc[e].tStat,
              pValue_FDR |-> scaled(mc[e].pValue_FDR)]] : mc \in lists}

\* _perform_multcompare(data, classes, var_idx, var_name): the possible lists
_perform_multcompare(d, cls, var_idx) ==
    UNION {pairwise_fdr(comparisons) :
              comparisons \in compare_pairs(d[var_idx], cls,
                                            LoopPairs(Len(unique(cls))))}

\* NeutralResult with a p-value of 0.0
NeutralResult_zero_p ==
    [p_val |-> Zero, f_stat |-> Zero, effect |-> Zero, multicomp |-> <<>>]

\* the record of a variable with fewer than 2 classes among its valid samples
NeutralResult ==
    [p_val |-> One, f_stat |-> Zero, effect |-> Zero, multicomp |-> <<>>]

\* effect_size without the test ss_total > 0
effect_size_unguarded(groups, var_clean) ==
    LET ss_between == FSeqSum([j \in 1..Len(groups) |->
                          LET dv == FSub(mean(groups[j]), mean(var_clean))
                          IN  FMul(FInt(Len(groups[j])), FMul(dv, dv))])
        ss_total == SumSqDev(var_clean, mean(var_clean))
    IN  FMul(FDiv(ss_between, ss_total), FInt(100))

\* the effect size (eta squared, percent) of the loop body
effect_size(groups, var_clean) ==
    LET ss_between == FSeqSum([j \in 1..Len(groups) |->
                          LET dv == FSub(mean(groups[j]), mean(var_clean))
                          IN  FMul(FInt(Len(groups[j])), FMul(dv, dv))])
        ss_total == SumSqDev(var_clean, mean(var_clean))
    IN  IF FLt(Zero, ss_total)
        THEN FMul(FDiv(ss_between, ss_total), FInt(100))
        ELSE Zero

\* analyze_variable without the branch for fewer than 2 classes: f_oneway
\* is handed fewer than two groups and the iteration does not complete
analyze_variable_no_skip(d, cls, idx) ==
    LET clean == CleanRows(d[idx], cls)
        var_clean == [k \in 1..Len(clean) |-> clean[k][1]]
        class_clean == [k \in 1..Len(clean) |-> clean[k][2]]
        labels == unique(class_clean)
        groups == [j \in 1..Len(labels) |-> GroupOf(clean, labels[j])]
    IN  IF Len(labels) < 2 THEN {}
        ELSE {[p_val |-> p_or_one(r[2]),
               f_stat |-> f_or_zero(r[1]),
               effect |-> effect_size(groups, var_clean),
               multicomp |-> mc] :
              r \in f_oneway(groups), mc \in _perform_multcompare(d, cls, idx)}

\* analyze_variable over the rows that hold a value in every column: the
\* mask of the whole row instead of the mask of the column
analyze_variable_listwise(d, cls, idx) ==
    LET masked == [s \in 1..Len(cls) |->
                      IF \A c \in DOMAIN d : d[c][s] # <<>>
                      THEN d[idx][s] ELSE <<>>]
        clean == CleanRows(masked, cls)
        var_clean == [k \in 1..Len(clean) |-> clean[k][1]]
        class_clean == [k \in 1..Len(clean) |-> clean[k][2]]
        labels == unique(class_clean)
        groups == [j \in 1..Len(labels) |-> GroupOf(clean, labels[j])]
    IN  IF Len(labels) < 2 THEN {NeutralResult}
        ELSE {[p_val |-> p_or_one(r[2]),
               f_stat |-> f_or_zero(r[1]),
               effect |-> effect_size(groups, var_clean),
               multicomp |-> mc] :
              r \in f_oneway(groups),
              mc \in _perform_multcompare(<<masked>>, cls, 1)}

\* one iteration of the per-variable loop: what it may append for column idx
analyze_variable(d, cls, idx) ==
    LET clean == CleanRows(d[idx], cls)
        var_clean == [k \in 1..Len(clean) |-> clean[k][1]]
        class_clean == [k \in 1..Len(clean) |-> clean[k][2]]
        labels == unique(class_clean)
        groups == [j \in 1..Len(labels) |-> GroupOf(clean, labels[j])]
    IN  IF Len(labels) < 2 THEN {NeutralResult}
        ELSE {[p_val |-> p_or_one(r[2]),
               f_stat |-> f_or_zero(r[1]),
               effect |-> effect_size(groups, var_clean),
               multicomp |-> mc] :
              r \in f_oneway(groups), mc \in _perform_multcompare(d, cls, idx)}

\* bonferroni_flags with the threshold left undivided
bonferroni_flags_undivided(pvals, threshold) ==
    [k \in 1..Len(pvals) |-> FLe(pvals[k], threshold)]

\* the iteration for column idx raises: f_oneway is called when 2 classes or
\* more are left, multipletests when there is a comparison to correct
variable_raises(d, cls, idx) ==
    LET clean == CleanRows(d[idx], cls)
        labels == unique([k \in 1..Len(clean) |-> clean[k][2]])
    IN  /\ Len(labels) >= 2
        /\ \/ "f_oneway" \in faults
           \/ /\ "multipletests" \in faults
              /\ compare_pairs(d[idx], cls, LoopPairs(Len(unique(cls))))
                     # {<<>>}

\* p_values <= self.fdr_threshold / len(p_values)
bonferroni_flags(pvals, threshold) ==
    [k \in 1..Len(pvals) |-> FLe(pvals[k], FDiv(threshold, FInt(Len(pvals))))]

\* build_results with the rows filled from the last column to the first
build_results_reversed(pvals, corrected, sig, effects, fstats, n) ==
    [k \in 1..n |->
        [variable |-> k,
         pValue |-> pvals[n + 1 - k],
         fdr |-> corrected[n + 1 - k],
         bonferroni |-> FMul(pvals[n + 1 - k], FInt(Len(pvals))),
         benjamini |-> sig[n + 1 - k],
         effectSize |-> effects[n + 1 - k],
         fStat |-> fstats[n + 1 - k]]]

\* the results table, one record per column index (var_names[k] is written k)
build_results(pvals, corrected, sig, effects, fstats, n) ==
    [k \in 1..n |->
        [variable |-> k,
         pValue |-> pvals[k],
         fdr |-> corrected[k],
         bonferroni |-> FMul(pvals[k], FInt(Len(pvals))),
         benjamini |-> sig[k],
         effectSize |-> effects[k],
         fStat |-> fstats[k]]]

\* _get_significant_vars with the configured threshold under policy code 1
_get_significant_vars_configured(results, option, sig) ==
    LET idx == 1..Len(results)
    IN  IF option = 0 THEN <<>>
        ELSE IF option = 1
        THEN SortedSeqOf({k \in idx : FLe(results[k].pValue, fdr_threshold)})
        ELSE IF option = 2
        THEN SortedSeqOf({k \in idx : FLe(results[k].bonferroni, fdr_threshold)})
        ELSE IF option = 3
        THEN SortedSeqOf({k \in idx : sig[k]})
        ELSE [k \in idx |-> k]

\* _get_significant_vars(results, plot_option, benjamini_sig): column indices
_get_significant_vars(results, option, sig) ==
    LET idx == 1..Len(results)
    IN  IF option = 0 THEN <<>>
        ELSE IF option = 1
        THEN SortedSeqOf({k \in idx : FLe(results[k].pValue, Flt(1, 20))})
        ELSE IF option = 2
        THEN SortedSeqOf({k \in idx : FLe(results[k].bonferroni, fdr_threshold)})
        ELSE IF option = 3
        THEN SortedSeqOf({k \in idx : sig[k]})
        ELSE [k \in idx |-> k]

----------------------------------------------------------------------------
(* _compute_boxplots_per_group *)

\* Python's max(x, y) and min(x, y) of two floats
FMax(x, y) == IF FLt(x, y) THEN y ELSE x

\* np.min / np.max of a non-empty sequence of integers
amin(g) == CHOOSE m \in {g[k] : k \in DOMAIN g} : \A k \in DOMAIN g : m <= g[k]

amax(g) == CHOOSE m \in {g[k] : k \in DOMAIN g} : \A k \in DOMAIN g : g[k] <= m

RECURSIVE np_sort(_)
\* the values in ascending order, repetitions kept
np_sort(g) ==
    IF g = <<>> THEN <<>>
    ELSE LET k == CHOOSE k \in DOMAIN g : g[k] = amin(g)
         IN  <<g[k]>> \o np_sort(SubSeq(g, 1, k - 1) \o SubSeq(g, k + 1, Len(g)))

\* np.percentile(g, q), linear interpolation between the two nearest ranks
percentile(g, q) ==
    LET x == np_sort(g)
        pos == (Len(g) - 1) * q
        lo == (pos \div 100) + 1
    IN  IF lo = Len(g) THEN FInt(x[lo])
        ELSE FAdd(FInt(x[lo]),
                  FMul(Flt(pos % 100, 100), FInt(x[lo + 1] - x[lo])))

\* the record of a group of one value
single_box(cls, val) ==
    [group |-> cls, min |-> FInt(val), q1 |-> FInt(val), median |-> FInt(val),
     q3 |-> FInt(val), max |-> FInt(val), values |-> <<val>>, n |-> 1]

\* the record of a group of two values or more: quartiles, and whiskers by
\* the 1.5 * IQR rule clipped to the data
quartile_box(cls, cls_data) ==
    LET q1 == percentile(cls_data, 25)
        median == percentile(cls_data, 50)
        q3 == percentile(cls_data, 75)
        reach == FMul(Flt(3, 2), FSub(q3, q1))
    IN  [group |-> cls,
         min |-> FMax(FInt(amin(cls_data)), FSub(q1, reach)),
         q1 |-> q1, median |-> median, q3 |-> q3,
         max |-> FMin(FInt(amax(cls_data)), FAdd(q3, reach)),
         values |-> cls_data, n |-> Len(cls_data)]

\* group_boxes with the groups of one value left out as well
group_boxes_two_up(var_data, cls) ==
    LET unique_classes == unique(cls)
        kept == SelectSeq(unique_classes,
                          LAMBDA c : Len(class_values(var_data, cls, c)) > 1)
    IN  [k \in 1..Len(kept) |->
            quartile_box(kept[k], class_values(var_data, cls, kept[k]))]

\* groups_boxplots of one variable: a record per class that has a value, in
\* the order of unique_classes ('Group<cls>' is written cls)
group_boxes(var_data, cls) ==
    LET unique_classes == unique(cls)
        kept == SelectSeq(unique_classes,
                          LAMBDA c : Len(class_values(var_data, cls, c)) > 0)
    IN  [k \in 1..Len(kept) |->
            LET cls_data == class_values(var_data, cls, kept[k])
            IN  IF Len(cls_data) = 1 THEN single_box(kept[k], cls_data[1])
                ELSE quartile_box(kept[k], cls_data)]

\* y_limits as [min * 0.75, max * 1.25] whatever the signs
y_limits_unsigned(boxes) ==
    LET all_values == Concat([k \in 1..Len(boxes) |-> boxes[k].values])
        data_min == FInt(amin(all_values))
        data_max == FInt(amax(all_values))
    IN  IF Len(all_values) > 0
        THEN [min |-> FMul(data_min, Flt(3, 4)),
              max |-> FMul(data_max, Flt(5, 4))]
        ELSE [min |-> Zero, max |-> One]

\* y_limits: [min * 0.75, max * 1.25], the factors swapped for values <= 0
y_limits(boxes) ==
    LET all_values == Concat([k \in 1..Len(boxes) |-> boxes[k].values])
        data_min == FInt(amin(all_values))
        data_max == FInt(amax(all_values))
    IN  IF Len(all_values) > 0
        THEN [min |-> IF FLt(Zero, data_min) THEN FMul(data_min, Flt(3, 4))
                      ELSE FMul(data_min, Flt(5, 4)),
              max |-> IF FLt(Zero, data_max) THEN FMul(data_max, Flt(5, 4))
                      ELSE FMul(data_max, Flt(3, 4))]
        ELSE [min |-> Zero, max |-> One]

\* _compute_boxplots_per_group(data, classes, var_names, var_indices): the
\* entries in insertion order ('variable_<var_idx>' is written var_idx)
_compute_boxplots_per_group(d, cls, var_indices) ==
    [e \in 1..Len(var_indices) |->
        LET boxes == group_boxes(d[var_indices[e]], cls)
        IN  [variable |-> var_indices[e],
             groups |-> boxes,
             y_limits |-> y_limits(boxes)]]

\* top_four without the cut: the whole selection
top_all(selection) == selection

\* significant_vars[:4]
top_four(selection) ==
    SubSeq(selection, 1,
           IF Len(selection) < 4 THEN Len(selection) ELSE 4)

----------------------------------------------------------------------------
(* _compute_global_stats, _compute_group_stats *)

\* the float sqrt(x) of x >= 0, kept exactly as its sign and its square
sqrt(x) == [sign |-> Sign(x[1]), square |-> x]

\* var_data[~np.isnan(var_data)]
valid_values(var_data) ==
    LET kept == SelectSeq(var_data, LAMBDA c : c # <<>>)
    IN  [k \in 1..Len(kept) |-> kept[k][1]]

\* the six statistics appended when var_clean is empty
ZeroStats ==
    [RSD |-> sqrt(Zero), STD |-> sqrt(Zero), MEAN |-> Zero,
     RANGE |-> Zero, MIN |-> Zero, MAX |-> Zero]

\* np.std(var_clean, ddof=1) if len(var_clean) > 1 else 0.0
std_val(var_clean) ==
    IF Len(var_clean) > 1
    THEN sqrt(FDiv(SumSqDev(var_clean, mean(var_clean)),
                   FInt(Len(var_clean) - 1)))
    ELSE sqrt(Zero)

\* rsd_val without the test mean_val != 0
rsd_unguarded(std, mean_val) ==
    [sign |-> std.sign * Sign(mean_val[1]),
     square |-> FMul(FDiv(std.square, FMul(mean_val, mean_val)), FInt(10000))]

\* (std_val / mean_val * 100) if mean_val != 0 else 0.0
rsd_val(std, mean_val) ==
    IF mean_val # Zero
    THEN [sign |-> std.sign * Sign(mean_val[1]),
          square |-> FMul(FDiv(std.square, FMul(mean_val, mean_val)),
                          FInt(10000))]
    ELSE sqrt(Zero)

\* the six statistics appended for one variable
six_stats(var_clean) ==
    IF Len(var_clean) = 0 THEN ZeroStats
    ELSE [RSD |-> rsd_val(std_val(var_clean), mean(var_clean)),
          STD |-> std_val(var_clean),
          MEAN |-> mean(var_clean),
          RANGE |-> FInt(amax(var_clean) - amin(var_clean)),
          MIN |-> FInt(amin(var_clean)),
          MAX |-> FInt(amax(var_clean))]

\* a table of six lists, one position per variable
stats_lists(rows) ==
    [RSD |-> [k \in 1..Len(rows) |-> rows[k].RSD],
     STD |-> [k \in 1..Len(rows) |-> rows[k].STD],
     MEAN |-> [k \in 1..Len(rows) |-> rows[k].MEAN],
     RANGE |-> [k \in 1..Len(rows) |-> rows[k].RANGE],
     MIN |-> [k \in 1..Len(rows) |-> rows[k].MIN],
     MAX |-> [k \in 1..Len(rows) |-> rows[k].MAX]]

\* _compute_global_stats(data, var_names)
_compute_global_stats(d) ==
    stats_lists([k \in 1..Len(d) |-> six_stats(valid_values(d[k]))])

\* _compute_group_stats(data, classes, var_names): one table per class, in
\* the order of unique_classes ('Group<cls>' is written cls)
_compute_group_stats(d, cls) ==
    LET unique_classes == unique(cls)
    IN  [g \in 1..Len(unique_classes) |->
            [group |-> unique_classes[g],
             stats |-> stats_lists([k \in 1..Len(d) |->
                          six_stats(class_values(d[k], cls, unique_classes[g]))])]]

----------------------------------------------------------------------------
(* overview_data, multicomparison and summary of analyze *)

\* np.where(flags)[0]: the flagged positions in column order
where_unsorted(flags, sorted_indices) ==
    SortedSeqOf({k \in 1..Len(flags) : flags[k]})


\* np.where(flags[sorted_indices])[0]: the positions, in the ascending order
\* of the p-values, of the flagged variables (counted from 1)
where_sorted(flags, sorted_indices) ==
    SortedSeqOf({k \in 1..Len(sorted_indices) : flags[sorted_indices[k]]})

\* np.max of a non-empty set of floats
fmax_of(S) == CHOOSE m \in S : \A x \in S : FLe(x, m)

\* benjamini_threshold read as the smallest p-value flagged
benjamini_threshold_min(pvals, sig) ==
    LET flagged == {pvals[k] : k \in {j \in 1..Len(pvals) : sig[j]}}
    IN  IF flagged # {} THEN CHOOSE m \in flagged : \A x \in flagged : FLe(m, x)
        ELSE fdr_threshold

\* float(np.max(p_values[benjamini_sig])) if np.any(benjamini_sig)
\* else self.fdr_threshold
benjamini_threshold(pvals, sig) ==
    LET flagged == {pvals[k] : k \in {j \in 1..Len(pvals) : sig[j]}}
    IN  IF flagged # {} THEN fmax_of(flagged) ELSE fdr_threshold

\* overview_data
overview(pvals, sig, bonf, sorted_indices) ==
    [p_values_sorted |-> [k \in 1..Len(pvals) |-> pvals[sorted_indices[k]]],
     benjamini_indices |-> where_sorted(sig, sorted_indices),
     bonferroni_indices |-> where_sorted(bonf, sorted_indices),
     bonferroni_threshold |-> FDiv(fdr_threshold, FInt(Len(pvals))),
     benjamini_threshold |-> benjamini_threshold(pvals, sig),
     nominal_threshold |-> Flt(1, 20)]

RECURSIVE flatten_from(_, _)
\* the rows of multicomp_table for the variables var_idx, var_idx + 1, ...
flatten_from(lists, var_idx) ==
    IF var_idx > Len(lists) THEN <<>>
    ELSE [e \in 1..Len(lists[var_idx]) |->
             [variableIndex |-> var_idx, comp |-> lists[var_idx][e]]]
         \o flatten_from(lists, var_idx + 1)

\* multicomp_table: the comparisons of all variables, in column order
flatten(lists) == flatten_from(lists, 1)

\* int(np.sum(flags))
count_true(flags) == Cardinality({k \in DOMAIN flags : flags[k]})

\* the summary with the two counts under each other's key
summary_of_swapped(pvals, sig, bonf) ==
    [total_variables |-> n_vars,
     benjamini_significant |-> count_true(bonf),
     bonferroni_significant |-> count_true(sig),
     nominal_significant |->
         Cardinality({k \in 1..Len(pvals) : FLe(pvals[k], Flt(1, 20))}),
     num_groups |-> Len(unique(classes))]


\* the summary of the returned dict
summary_of(pvals, sig, bonf) ==
    [total_variables |-> n_vars,
     benjamini_significant |-> count_true(sig),
     bonferroni_significant |-> count_true(bonf),
     nominal_significant |->
         Cardinality({k \in 1..Len(pvals) : FLe(pvals[k], Flt(1, 20))}),
     num_groups |-> Len(unique(classes))]

----------------------------------------------------------------------------
(* Inputs *)

\* the configured thresholds tried: the default 0.05, 0.5 and 1
Thresholds == {Flt(1, 20), Flt(1, 2), One}

Missing == <<>>

\* columns over the labels <<1, 1, 2, 2>>, one for each way the loop body can
\* go: no valid value; one class left; all values equal; one value per class;
\* constant classes with different means; an F test with a finite statistic
PoolColumns ==
    { <<Missing, Missing, Missing, Missing>>,
      <<(<<1>>), <<2>>, Missing, Missing>>,
      <<(<<1>>), <<1>>, <<1>>, <<1>>>>,
      <<(<<1>>), Missing, <<2>>, Missing>>,
      <<(<<1>>), <<1>>, <<2>>, <<2>>>>,
      <<(<<1>>), <<2>>, <<2>>, Missing>> }

PoolClasses == <<1, 1, 2, 2>>

\* every column over three classes of two samples, cells NaN, 1 or 2
ColumnClasses == <<1, 1, 2, 2, 3, 3>>

Cells == {Missing, <<1>>, <<2>>}

\* the locals of analyze before its first statement
StartOfRun ==
    /\ i = 1
    /\ p_values = <<>>
    /\ f_statistics = <<>>
    /\ effect_sizes = <<>>
    /\ all_multicomparisons = <<>>
    /\ bonferroni_sig = <<>>
    /\ benjamini_sig = <<>>
    /\ fdr_corrected = <<>>
    /\ results_table = <<>>
    /\ significant_vars = <<>>
    /\ bundle = <<>>

\* no second request
NoRequest == [pc |-> "none"]

\* analyze is entered with the labels of a file whose class column holds
\* these integers and that has no empty row; it is the only request
StartOfAnalyze ==
    /\ pc = "sweep"
    /\ other = NoRequest
    /\ series = [dtype |-> "int64", values |-> classes]
    /\ StartOfRun
    /\ NoAssistant

\* matrices of 1..MaxVars pool columns
InitPool ==
    /\ fdr_threshold \in Thresholds
    /\ faults = {}
    /\ plot_option = 3
    /\ classes = PoolClasses
    /\ data \in UNION {[1..n -> PoolColumns] : n \in 1..MaxVars}
    /\ StartOfAnalyze

\* matrices of one column, every column, at the default threshold
InitColumn ==
    /\ fdr_threshold = Flt(1, 20)
    /\ faults = {}
    /\ plot_option = 3
    /\ classes = ColumnClasses
    /\ data \in {<<col>> : col \in [1..Len(ColumnClasses) -> Cells]}
    /\ StartOfAnalyze

\* columns over the three classes: three comparisons, two of them with an
\* open p-value; an F test and no comparison; one value per class; all
\* values equal, with one comparison
ColumnA == <<(<<1>>), <<1>>, <<1>>, <<2>>, <<2>>, <<2>>>>

ColumnB == <<(<<1>>), <<2>>, <<2>>, Missing, <<1>>, Missing>>

ColumnS == <<(<<1>>), Missing, <<2>>, Missing, <<1>>, Missing>>

ColumnE == <<(<<1>>), <<1>>, <<1>>, <<1>>, Missing, Missing>>

\* matrices of two of these columns
InitTwo ==
    /\ fdr_threshold \in Thresholds
    /\ faults = {}
    /\ plot_option = 3
    /\ classes = ColumnClasses
    /\ data \in {<<ColumnA, ColumnB>>, <<ColumnB, ColumnA>>,
                 <<ColumnS, ColumnE>>, <<ColumnE, ColumnA>>}
    /\ StartOfAnalyze

\* the policy codes tried: 0 to 3, and codes that select every variable
PlotOptions == {0 - 1, 0, 1, 2, 3, 4, 5}

\* columns over the labels <<1, 1, 2, 2>>: an F test with an open p-value
\* and a class of one value; a class without values; values of mean 0; one
\* value in all; no value at all; constant classes (p = 0)
ColumnO == <<(<<1>>), <<2>>, <<2>>, Missing>>

ColumnG == <<Missing, Missing, <<1>>, <<2>>>>

ColumnN == <<(<<0 - 1>>), <<1>>, <<0>>, Missing>>

ColumnL == <<Missing, <<2>>, Missing, Missing>>

ColumnM == <<Missing, Missing, Missing, Missing>>

ColumnZ == <<(<<1>>), <<1>>, <<2>>, <<2>>>>

\* negative values only; zeros only
ColumnMinus == <<(<<0 - 2>>), <<0 - 1>>, <<0 - 2>>, Missing>>

ColumnNought == <<(<<0>>), <<0>>, <<0>>, Missing>>

\* wide matrices: more than four columns, under every policy code
InitWide ==
    /\ fdr_threshold \in Thresholds
    /\ faults = {}
    /\ plot_option \in PlotOptions
    /\ classes = PoolClasses
    /\ data \in {<<ColumnO, ColumnZ, ColumnZ, ColumnZ, ColumnZ, ColumnZ>>,
                 <<ColumnO, ColumnG, ColumnN, ColumnL, ColumnM, ColumnZ>>,
                 <<ColumnM, ColumnMinus, ColumnNought, ColumnN, ColumnO,
                   ColumnZ>>}
    /\ StartOfAnalyze

Init == InitPool

----------------------------------------------------------------------------
(* analyze *)

\* lines 56-88: one iteration of the loop over the columns
Sweep ==
    /\ pc = "sweep"
    /\ IF variable_raises(data, classes, i)
       THEN /\ pc' = "error"
            /\ UNCHANGED <<i, p_values, f_statistics, effect_sizes,
                           all_multicomparisons>>
       ELSE /\ \E r \in analyze_variable(data, classes, i) :
                /\ p_values' = Append(p_values, r.p_val)
                /\ f_statistics' = Append(f_statistics, r.f_stat)
                /\ effect_sizes' = Append(effect_sizes, r.effect)
                /\ all_multicomparisons' =
                       Append(all_multicomparisons, r.multicomp)
            /\ i' = i + 1
            /\ pc' = IF i + 1 > n_vars THEN "correct" ELSE "sweep"
    /\ UNCHANGED <<fdr_threshold, data, classes, bonferroni_sig, benjamini_sig,
                   fdr_corrected, results_table, plot_option,
                   significant_vars, bundle, faults, series, other, assistant_vars>>

\* lines 90-117: Bonferroni, Benjamini-Hochberg and the results table
Correct ==
    /\ pc = "correct"
    /\ IF "multipletests" \in faults
       THEN /\ pc' = "error"
            /\ UNCHANGED <<bonferroni_sig, benjamini_sig, fdr_corrected,
                           results_table>>
       ELSE /\ bonferroni_sig' = bonferroni_flags(p_values, fdr_threshold)
            /\ \E mt \in multipletests(p_values, fdr_threshold) :
                /\ benjamini_sig' = mt.reject
                /\ fdr_corrected' = mt.pvals_corrected
                /\ results_table' =
                       build_results(p_values, mt.pvals_corrected, mt.reject,
                                     effect_sizes, f_statistics, n_vars)
            /\ pc' = "select"
    /\ UNCHANGED <<fdr_threshold, data, classes, i, p_values, f_statistics,
                   effect_sizes, all_multicomparisons, plot_option,
                   significant_vars, bundle, faults, series, other, assistant_vars>>

\* lines 119-180: the selection, the boxplots, the statistics, the overview,
\* the flattened comparisons and the returned dict
Assemble ==
    /\ pc = "select"
    /\ significant_vars' = _get_significant_vars(results_table, plot_option,
                                                 benjamini_sig)
    /\ \E overview_data \in {overview(p_values, benjamini_sig, bonferroni_sig,
                                      sorted_indices) :
                                 sorted_indices \in ArgSorts(p_values)} :
        bundle' =
            [results |-> results_table,
             multicomparison |-> flatten(all_multicomparisons),
             global_stats |-> _compute_global_stats(data),
             group_stats |-> _compute_group_stats(data, classes),
             boxplot_data |-> _compute_boxplots_per_group(data, classes,
                                  top_four(significant_vars')),
             overview_data |-> overview_data,
             summary |-> summary_of(p_values, benjamini_sig, bonferroni_sig)]
    /\ pc' = "done"
    /\ UNCHANGED <<fdr_threshold, data, classes, i, p_values, f_statistics,
                   effect_sizes, all_multicomparisons, bonferroni_sig,
                   benjamini_sig, fdr_corrected, results_table, plot_option,
                   faults, series, other, assistant_vars>>

Next == Sweep \/ Correct \/ Assemble

Spec == Init /\ [][Next]_vars

\* the same analysis over the two-column matrices
SpecTwo == InitTwo /\ [][Next]_vars

\* over every single column and the two-column matrices
InitColumns == InitColumn \/ InitTwo

SpecColumn == InitColumns /\ [][Next]_vars

\* over the wide matrices
SpecWide == InitWide /\ [][Next]_vars

\* the library routines analyze calls
Routines == {"f_oneway", "ttest_ind", "multipletests"}

\* the two-column matrices, with routines that raise
InitFaulty ==
    /\ fdr_threshold \in Thresholds
    /\ faults \in SUBSET Routines
    /\ plot_option = 3
    /\ classes = ColumnClasses
    /\ data \in {<<ColumnA, ColumnB>>, <<ColumnB, ColumnA>>,
                 <<ColumnS, ColumnE>>, <<ColumnE, ColumnA>>}
    /\ StartOfAnalyze

SpecFaulty == InitFaulty /\ [][Next]_vars

\* matrices of 1..MaxVars columns with an open p-value each: every vector
\* of p-values the sweep can hand to the correction
InitOpen ==
    /\ fdr_threshold \in Thresholds
    /\ faults = {}
    /\ plot_option = 3
    /\ classes = PoolClasses
    /\ data \in {[k \in 1..n |-> ColumnO] : n \in 1..MaxVars}
    /\ StartOfAnalyze

\* every vector of p-values, every single column, the two-column matrices
InitSweep == InitOpen \/ InitColumn \/ InitTwo

SpecSweep == InitSweep /\ [][Next]_vars

----------------------------------------------------------------------------
(* Vocabulary of the properties: a column described from the input alone *)

TableBuilt == pc = "select"

Processed == 1..Len(p_values)

ValidSamples(k) == {s \in 1..n_samples : data[k][s] # Missing}

SamplesOf(k, c) == {s \in ValidSamples(k) : classes[s] = c}

ValidLabels(k) == {classes[s] : s \in ValidSamples(k)}

ValidValues(k) == {data[k][s][1] : s \in ValidSamples(k)}

FewLabels(k) == Cardinality(ValidLabels(k)) < 2

AllEqual(k) == Cardinality(ValidValues(k)) <= 1

AllSingletons(k) == \A c \in ValidLabels(k) : Cardinality(SamplesOf(k, c)) = 1

ClassesConstant(k) ==
    \A c \in ValidLabels(k) : \A s, t \in SamplesOf(k, c) : data[k][s] = data[k][t]

RECURSIVE SumOver(_, _)
\* the sum of f over the set S
SumOver(f, S) ==
    IF S = {} THEN 0
    ELSE LET x == CHOOSE y \in S : TRUE IN f[x] + SumOver(f, S \ {x})

ValueSum(k, S) == SumOver([s \in S |-> data[k][s][1]], S)

SquareSum(k, S) == SumOver([s \in S |-> data[k][s][1] * data[k][s][1]], S)

\* sum of x^2 minus (sum of x)^2 / count, over the samples S of column k
Scatter(k, S) ==
    FSub(FInt(SquareSum(k, S)), Flt(ValueSum(k, S) * ValueSum(k, S), Cardinality(S)))

RECURSIVE FSumOver(_, _)
FSumOver(f, S) ==
    IF S = {} THEN Zero
    ELSE LET x == CHOOSE y \in S : TRUE IN FAdd(f[x], FSumOver(f, S \ {x}))

\* eta squared in percent from the textbook decomposition SS_between =
\* SS_total - SS_within
EtaSquared(k) ==
    LET total == Scatter(k, ValidSamples(k))
        within == FSumOver([c \in ValidLabels(k) |-> Scatter(k, SamplesOf(k, c))],
                           ValidLabels(k))
    IN  IF total = Zero THEN Zero
        ELSE FMul(FDiv(FSub(total, within), total), FInt(100))

\* the k-th smallest of the values of a sequence of numbers
KthSmallest(ps, k) ==
    CHOOSE x \in {ps[j] : j \in DOMAIN ps} :
        /\ Cardinality({j \in DOMAIN ps : FLt(ps[j], x)}) < k
        /\ k <= Cardinality({j \in DOMAIN ps : FLe(ps[j], x)})

\* the ranks k with p(k) <= (k / n) * alpha
PassingRanks(ps, alpha) ==
    {k \in 1..Len(ps) : FLe(KthSmallest(ps, k), FMul(Flt(k, Len(ps)), alpha))}

\* min over the ranks j from the rank of ps[v] on of p(j) * n / j
StepUpQ(ps, v) ==
    LET late == {j \in 1..Len(ps) : FLe(ps[v], KthSmallest(ps, j))}
        q(j) == FDiv(FMul(KthSmallest(ps, j), FInt(Len(ps))), FInt(j))
    IN  q(CHOOSE j \in late : \A h \in late : FLe(q(j), q(h)))

PairwisePs(mc) == [e \in 1..Len(mc) |-> mc[e].pValue]

PairwiseQs(mc) == [e \in 1..Len(mc) |-> mc[e].pValue_FDR]

----------------------------------------------------------------------------
(* Properties *)

\* C1: the results table has exactly one record per input column and the
\* record at position k describes column k: it carries k's name, the neutral
\* values when column k has fewer than 2 classes among its valid samples,
\* and otherwise column k's effect size (and p = 0, F = +inf when the classes
\* of column k are constant with different values and not all single).
C1_ResultsAligned ==
    TableBuilt =>
        /\ Len(results_table) = n_vars
        /\ \A k \in 1..n_vars :
            /\ results_table[k].variable = k
            /\ FewLabels(k) =>
                /\ results_table[k].pValue = One
                /\ results_table[k].fStat = Zero
                /\ results_table[k].effectSize = Zero
            /\ ~FewLabels(k) => results_table[k].effectSize = EtaSquared(k)
            /\ (~FewLabels(k) /\ ClassesConstant(k) /\ ~AllEqual(k)
                    /\ ~AllSingletons(k)) =>
                /\ results_table[k].pValue = Zero
                /\ results_table[k].fStat = <<1, 0>>

C1_Witness ==
    /\ TableBuilt
    /\ n_vars >= 3
    /\ FewLabels(1)
    /\ ~FewLabels(2) /\ ClassesConstant(2) /\ ~AllEqual(2) /\ ~AllSingletons(2)
    /\ ~FewLabels(3) /\ ~ClassesConstant(3)
    /\ results_table[3].pValue # One

\* C2: every variable that is Bonferroni-significant (nominal p <= alpha /
\* n_vars) is flagged BH-significant at the same alpha.
C2_BonferroniWithinBH ==
    TableBuilt =>
        \A k \in 1..n_vars :
            FLe(results_table[k].pValue, FDiv(fdr_threshold, FInt(n_vars)))
                => results_table[k].benjamini

C2_Witness ==
    /\ TableBuilt
    /\ \E k, j \in 1..n_vars :
        /\ FLe(results_table[k].pValue, FDiv(fdr_threshold, FInt(n_vars)))
        /\ FLt(Zero, results_table[k].pValue)
        /\ results_table[j].benjamini
        /\ ~FLe(results_table[j].pValue, FDiv(fdr_threshold, FInt(n_vars)))

\* C3: whenever variable a has a nominal p-value less than or equal to that
\* of variable b, the BH q-value of a is less than or equal to that of b.
C3_QMonotone ==
    TableBuilt =>
        \A a, b \in 1..n_vars :
            FLe(results_table[a].pValue, results_table[b].pValue)
                => FLe(results_table[a].fdr, results_table[b].fdr)

C3_Witness ==
    /\ TableBuilt
    /\ \E a, b \in 1..n_vars :
        /\ FLt(results_table[a].pValue, results_table[b].pValue)
        /\ results_table[a].fdr = results_table[b].fdr
        /\ FLt(results_table[a].fdr, One)

\* C4: a variable is flagged BH-significant exactly when its rank in
\* ascending nominal-p order is at most the largest rank k with
\* p(k) <= (k / n) * alpha; no variable is flagged when there is no such rank.
C4_StepUpFlags ==
    TableBuilt =>
        LET passing == PassingRanks(p_values, fdr_threshold)
            top == CHOOSE k \in passing : \A h \in passing : h <= k
        IN  \A v \in 1..n_vars :
                results_table[v].benjamini <=>
                    (passing # {} /\ FLe(p_values[v], KthSmallest(p_values, top)))

C4_Witness ==
    /\ TableBuilt
    /\ \E v, w \in 1..n_vars :
        /\ results_table[v].benjamini
        /\ \E k \in 1..n_vars :
            /\ p_values[v] = KthSmallest(p_values, k)
            /\ k \notin PassingRanks(p_values, fdr_threshold)
        /\ ~results_table[w].benjamini

\* C5: the BH q-value of the variable at rank i equals the minimum over the
\* ranks j >= i of p(j) * n / j, in the global pass over the variables and
\* in the pairwise pass of each variable (n the size of that pool).
C5_QValueFormula ==
    /\ TableBuilt =>
        \A v \in 1..n_vars : results_table[v].fdr = StepUpQ(p_values, v)
    /\ \A k \in Processed :
        \A e \in 1..Len(all_multicomparisons[k]) :
            all_multicomparisons[k][e].pValue_FDR
                = StepUpQ(PairwisePs(all_multicomparisons[k]), e)

C5_Witness ==
    /\ TableBuilt
    /\ n_vars = 2
    /\ FLt(results_table[1].pValue, results_table[2].pValue)
    /\ results_table[1].fdr = results_table[2].fdr
    /\ Len(all_multicomparisons[1]) = 3
    /\ \E e \in 1..3 :
        /\ FLt(Zero, all_multicomparisons[1][e].pValue)
        /\ FLt(all_multicomparisons[1][e].pValue_FDR,
               FMul(all_multicomparisons[1][e].pValue, FInt(3)))
        /\ all_multicomparisons[1][e].pValue_FDR # all_multicomparisons[1][e].pValue

\* C6: a variable whose valid samples carry fewer than 2 distinct class
\* labels is not dropped: it yields p = 1, F = 0, effect size 0 and no
\* pairwise entries, and the sweep goes on with the next variable.
C6_FewLabelsNeutral ==
    /\ \A k \in Processed :
        FewLabels(k) =>
            /\ p_values[k] = One
            /\ f_statistics[k] = Zero
            /\ effect_sizes[k] = Zero
            /\ all_multicomparisons[k] = <<>>
    /\ pc = "sweep" => (Len(p_values) = i - 1 /\ i <= n_vars)
    /\ pc # "sweep" => Len(p_values) = n_vars
    /\ Len(f_statistics) = Len(p_values)
    /\ Len(effect_sizes) = Len(p_values)
    /\ Len(all_multicomparisons) = Len(p_values)

C6_Witness ==
    /\ TableBuilt
    /\ n_vars >= 2
    /\ FewLabels(1)
    /\ ValidSamples(1) # {}
    /\ ~FewLabels(2)
    /\ all_multicomparisons[1] = <<>>
    /\ all_multicomparisons[2] # <<>>

\* the groups the loop body forms for column k
ColumnGroups(k) ==
    LET clean == CleanRows(data[k], classes)
        labels == unique([r \in 1..Len(clean) |-> clean[r][2]])
    IN  [j \in 1..Len(labels) |-> GroupOf(clean, labels[j])]

\* the one-way F test of column k yields NaN
FTestNaN(k) == ~FewLabels(k) /\ isnan(f_statistic(ColumnGroups(k)))

\* the pairs of classes that both hold at least 2 valid values in column k
FullPairs(k) ==
    LET labels == {classes[s] : s \in 1..n_samples}
    IN  {pr \in labels \X labels :
            /\ pr[1] < pr[2]
            /\ Cardinality(SamplesOf(k, pr[1])) >= 2
            /\ Cardinality(SamplesOf(k, pr[2])) >= 2}

\* C7 as claimed: a variable whose F test yields NaN gets the full neutral
\* record: p = 1, F = 0, effect size 0 and an empty pairwise list.
C7_NaNFullyNeutral ==
    \A k \in Processed :
        FTestNaN(k) =>
            /\ p_values[k] = One
            /\ f_statistics[k] = Zero
            /\ effect_sizes[k] = Zero
            /\ all_multicomparisons[k] = <<>>

\* C7 as amended: the F test yields NaN exactly when every class has a
\* single valid sample or all valid values are equal; such a variable gets
\* p = 1 and F = 0 only.  Its effect size is still computed: 0 when all valid
\* values are equal, 100 otherwise.  Its pairwise list is still built: one
\* entry (p = 1, t = 0, mean difference 0, q = 1) for each pair of classes
\* with at least 2 valid values each, so it is empty only when there is no
\* such pair.
C7_NaNDowngrade ==
    \A k \in Processed :
        ~FewLabels(k) =>
            /\ FTestNaN(k) <=> (AllSingletons(k) \/ AllEqual(k))
            /\ FTestNaN(k) =>
                /\ p_values[k] = One
                /\ f_statistics[k] = Zero
                /\ effect_sizes[k] = IF AllEqual(k) THEN Zero ELSE FInt(100)
                /\ Len(all_multicomparisons[k]) = Cardinality(FullPairs(k))
                /\ \A e \in 1..Len(all_multicomparisons[k]) :
                    /\ all_multicomparisons[k][e].pValue = One
                    /\ all_multicomparisons[k][e].tStat = TZero
                    /\ all_multicomparisons[k][e].mean_diff = Zero
                    /\ all_multicomparisons[k][e].pValue_FDR = One

C7_Witness ==
    \E k, j \in Processed :
        /\ FTestNaN(k) /\ AllSingletons(k) /\ effect_sizes[k] = FInt(100)
        /\ FTestNaN(j) /\ AllEqual(j) /\ all_multicomparisons[j] # <<>>

\* C8: if all the valid values of a variable are numerically identical, its
\* nominal p-value is 1.0 and its effect size 0.0, and, for alpha < 1, it is
\* not BH-significant and not selected under the policy codes 1, 2 and 3.
C8_ConstantNotSelected ==
    TableBuilt =>
        \A k \in 1..n_vars :
            Cardinality(ValidValues(k)) = 1 =>
                /\ results_table[k].pValue = One
                /\ results_table[k].effectSize = Zero
                /\ FLt(fdr_threshold, One) =>
                    /\ ~results_table[k].benjamini
                    /\ \A opt \in 1..3 :
                        LET chosen == _get_significant_vars(results_table, opt,
                                                            benjamini_sig)
                        IN  \A e \in 1..Len(chosen) : chosen[e] # k

C8_Witness ==
    /\ TableBuilt
    /\ FLt(fdr_threshold, One)
    /\ \E k, j \in 1..n_vars :
        /\ Cardinality(ValidValues(k)) = 1
        /\ ~FewLabels(k)
        /\ results_table[j].benjamini
        /\ \A opt \in 1..3 :
            _get_significant_vars(results_table, opt, benjamini_sig) = <<j>>

\* C9 as claimed: the pairwise list of a variable holds an entry for a pair
\* of classes exactly when both classes have at least 2 valid values, and
\* every entry has a nominal p-value in [0, 1] and a finite t statistic.
C9_PairEntries ==
    \A k \in Processed :
        LET mc == all_multicomparisons[k]
            labels == {classes[s] : s \in 1..n_samples}
        IN  /\ \A x, y \in labels :
                x < y =>
                    ((\E e \in 1..Len(mc) : mc[e].groupX = x /\ mc[e].groupY = y)
                        <=> <<x, y>> \in FullPairs(k))
            /\ \A e \in 1..Len(mc) :
                /\ FLe(Zero, mc[e].pValue)
                /\ FLe(mc[e].pValue, One)
                /\ IsFinite(mc[e].tStat.square)

\* the matrices that hold column k of the data as their last column: alone,
\* or after a column without values
MatricesWith(k) ==
    {<<data[k]>>, <<[s \in 1..n_samples |-> Missing], data[k]>>}

\* C10: the q-values of the pairwise comparisons of a variable are computed
\* from its own pairwise p-values only: when the sweep has just processed a
\* column, an analysis of any matrix that holds the same column, alone or
\* among other columns, reaching the same pairwise p-values, gives the same
\* q-values, whatever the threshold and the global p-values.
C10_OwnPoolOnly ==
    \A k \in Processed :
        k = Len(p_values) =>
            \A d \in MatricesWith(k) :
                \A mc \in _perform_multcompare(d, classes, Len(d)) :
                    PairwisePs(mc) = PairwisePs(all_multicomparisons[k])
                        => PairwiseQs(mc) = PairwiseQs(all_multicomparisons[k])

C10_Witness ==
    /\ TableBuilt
    /\ n_vars = 2
    /\ fdr_threshold = Flt(1, 2)
    /\ p_values[1] # p_values[2]
    /\ all_multicomparisons[1] = <<>>
    /\ Len(all_multicomparisons[2]) = 3
    /\ \E e \in 1..3 :
        /\ all_multicomparisons[2][e].pValue_FDR # all_multicomparisons[2][e].pValue
        /\ FLt(all_multicomparisons[2][e].pValue_FDR, One)

----------------------------------------------------------------------------
(* The returned dict *)

\* analyze has returned
Returned == pc = "done"

\* the elements of a sequence
Range(seq) == {seq[e] : e \in DOMAIN seq}

\* C11: the selection is empty for the policy code 0, the variables with a
\* nominal p-value of at most 0.05 for 1, the Bonferroni-significant
\* variables for 2, the BH-significant variables for 3 and all the variables
\* for any other code; the selected indices strictly ascend.
C11_SelectionByPolicy ==
    Returned =>
        /\ Range(significant_vars) =
               CASE plot_option = 0 -> {}
                 [] plot_option = 1 ->
                        {k \in 1..n_vars : FLe(p_values[k], Flt(1, 20))}
                 [] plot_option = 2 -> {k \in 1..n_vars : bonferroni_sig[k]}
                 [] plot_option = 3 -> {k \in 1..n_vars : benjamini_sig[k]}
                 [] OTHER -> 1..n_vars
        /\ \A e \in 1..(Len(significant_vars) - 1) :
               significant_vars[e] < significant_vars[e + 1]

C11_Witness ==
    /\ Returned
    /\ plot_option = 1
    /\ Len(significant_vars) >= 2
    /\ \E k \in 1..n_vars :
        /\ FLt(Flt(1, 20), p_values[k])
        /\ FLe(p_values[k], fdr_threshold)
        /\ k \notin Range(significant_vars)

C13_BoxplotsFirstFour ==
    Returned =>
        LET shown == bundle.boxplot_data
        IN  /\ Len(shown) <= 4
            /\ Len(shown) = IF Len(significant_vars) < 4
                            THEN Len(significant_vars) ELSE 4
            /\ \A e \in 1..Len(shown) :
                   shown[e].variable = significant_vars[e]

C13_Witness ==
    /\ Returned
    /\ plot_option = 3
    /\ Len(significant_vars) > 4
    /\ \E e \in 5..Len(significant_vars) :
        FLt(p_values[significant_vars[e]], p_values[significant_vars[1]])

\* C14: overview_data.benjamini_threshold is the largest nominal p-value of
\* the BH-significant variables, and the configured alpha when there is none.
C14_BenjaminiThreshold ==
    Returned =>
        LET flagged == {k \in 1..n_vars : results_table[k].benjamini}
            shown == bundle.overview_data.benjamini_threshold
        IN  IF flagged = {} THEN shown = fdr_threshold
            ELSE /\ \E k \in flagged : shown = p_values[k]
                 /\ \A k \in flagged : FLe(p_values[k], shown)

C14_Witness ==
    /\ Returned
    /\ \E k, j \in 1..n_vars :
        /\ results_table[k].benjamini
        /\ results_table[j].benjamini
        /\ FLt(p_values[k], p_values[j])
        /\ bundle.overview_data.benjamini_threshold = p_values[j]

\* the valid values column k holds in the samples S
ValuesIn(k, S) == {data[k][s][1] : s \in {t \in S : data[k][t] # Missing}}

\* the number of valid values column k holds in the samples S
CountIn(k, S) == Cardinality({t \in S : data[k][t] # Missing})

\* the samples of class c
ClassSamples(c) == {s \in 1..n_samples : classes[s] = c}

\* the six statistics at position k of a table
StatsAt(table, k) ==
    [RSD |-> table.RSD[k], STD |-> table.STD[k], MEAN |-> table.MEAN[k],
     RANGE |-> table.RANGE[k], MIN |-> table.MIN[k], MAX |-> table.MAX[k]]

\* what is stated of the six statistics st of column k over the samples S
DegenerateByValue(st, k, S) ==
    /\ CountIn(k, S) = 0 =>
           /\ st.RSD.square = Zero /\ st.STD.square = Zero /\ st.MEAN = Zero
           /\ st.RANGE = Zero /\ st.MIN = Zero /\ st.MAX = Zero
    /\ CountIn(k, S) = 1 => st.STD.square = Zero
    /\ st.MEAN = Zero => st.RSD.square = Zero
    /\ IsFinite(st.RSD.square) /\ IsFinite(st.STD.square)
    /\ st.RANGE = FSub(st.MAX, st.MIN)
    /\ CountIn(k, S) > 0 =>
           /\ \E v \in ValuesIn(k, S) : st.MIN = FInt(v)
           /\ \E v \in ValuesIn(k, S) : st.MAX = FInt(v)
           /\ \A v \in ValuesIn(k, S) :
                  FLe(st.MIN, FInt(v)) /\ FLe(FInt(v), st.MAX)

\* C15: the descriptive statistics treat degenerate inputs by value, in the
\* same way for the whole matrix and for each class: no valid value gives 0
\* for the six statistics, one valid value gives STD 0, MEAN 0 gives RSD 0,
\* and RANGE is MAX - MIN; there is one table for each class label.
C15_StatsByValue ==
    Returned =>
        LET labels == unique(classes)
        IN  /\ \A k \in 1..n_vars :
                   DegenerateByValue(StatsAt(bundle.global_stats, k), k,
                                     1..n_samples)
            /\ Len(bundle.group_stats) = Len(labels)
            /\ \A g \in 1..Len(labels) :
                   /\ bundle.group_stats[g].group = labels[g]
                   /\ \A k \in 1..n_vars :
                          DegenerateByValue(
                              StatsAt(bundle.group_stats[g].stats, k), k,
                              ClassSamples(labels[g]))

C15_Witness ==
    /\ Returned
    /\ \E k \in 1..n_vars : CountIn(k, 1..n_samples) = 0
    /\ \E k \in 1..n_vars :
        /\ CountIn(k, ClassSamples(1)) = 0
        /\ CountIn(k, ClassSamples(2)) = 2
    /\ \E k \in 1..n_vars : CountIn(k, ClassSamples(2)) = 1
    /\ \E k \in 1..n_vars :
        /\ bundle.global_stats.MEAN[k] = Zero
        /\ bundle.global_stats.STD[k].square # Zero
        /\ bundle.global_stats.RSD[k].square = Zero
        /\ bundle.group_stats[1].stats.MEAN[k] = Zero
        /\ bundle.group_stats[1].stats.STD[k].square # Zero

\* the records of class c among the boxes of one boxplot entry
BoxesOf(entry, c) ==
    {b \in 1..Len(entry.groups) : entry.groups[b].group = c}

\* C16: in boxplot_data, a class with exactly one valid sample of a selected
\* variable has min = q1 = median = q3 = max = that value, values = [that
\* value] and n = 1; a class without valid samples has no record.
C16_SingleSampleBox ==
    Returned =>
        \A e \in 1..Len(bundle.boxplot_data) :
            LET entry == bundle.boxplot_data[e]
                k == entry.variable
            IN  \A c \in Range(classes) :
                    /\ CountIn(k, ClassSamples(c)) = 0 => BoxesOf(entry, c) = {}
                    /\ CountIn(k, ClassSamples(c)) > 0 =>
                           Cardinality(BoxesOf(entry, c)) = 1
                    /\ CountIn(k, ClassSamples(c)) = 1 =>
                           \A b \in BoxesOf(entry, c) :
                               \E v \in ValuesIn(k, ClassSamples(c)) :
                                   /\ entry.groups[b].min = FInt(v)
                                   /\ entry.groups[b].q1 = FInt(v)
                                   /\ entry.groups[b].median = FInt(v)
                                   /\ entry.groups[b].q3 = FInt(v)
                                   /\ entry.groups[b].max = FInt(v)
                                   /\ entry.groups[b].values = <<v>>
                                   /\ entry.groups[b].n = 1

C16_Witness ==
    /\ Returned
    /\ \E e, f \in 1..Len(bundle.boxplot_data) :
        /\ CountIn(bundle.boxplot_data[e].variable, ClassSamples(2)) = 1
        /\ CountIn(bundle.boxplot_data[e].variable, ClassSamples(1)) = 2
        /\ Len(bundle.boxplot_data[e].groups) = 2
        /\ CountIn(bundle.boxplot_data[f].variable, ClassSamples(1)) = 0
        /\ Len(bundle.boxplot_data[f].groups) = 1

\* the returned dict describes every column and every class
CompleteBundle ==
    /\ Len(bundle.results) = n_vars
    /\ Len(bundle.global_stats.MEAN) = n_vars
    /\ Len(bundle.group_stats) = Cardinality(Range(classes))
    /\ \A g \in 1..Len(bundle.group_stats) :
           Len(bundle.group_stats[g].stats.MEAN) = n_vars
    /\ bundle.summary.total_variables = n_vars
    /\ Len(bundle.overview_data.p_values_sorted) = n_vars
    /\ Len(bundle.boxplot_data) = Len(top_four(significant_vars))

\* the steps analyze has left at most: the columns still to sweep, the
\* corrections, the assembly of the dict
StepsLeft ==
    CASE pc = "sweep" -> 2 + (n_vars + 1 - i)
      [] pc = "correct" -> 2
      [] pc = "select" -> 1
      [] OTHER -> 0

\* analyze has a next step to take: the statement it is at yields a result
CanStep ==
    CASE pc = "sweep" ->
             variable_raises(data, classes, i)
                 \/ analyze_variable(data, classes, i) # {}
      [] pc = "correct" ->
             "multipletests" \in faults
                 \/ multipletests(p_values, fdr_threshold) # {}
      [] pc = "select" -> ArgSorts(p_values) # {}
      [] OTHER -> TRUE

\* C17: whatever the NaN pattern of the columns (no valid value, one valid
\* value, classes without valid values) and whatever the policy code, analyze
\* does not abort, always has a next step until it returns, takes a bounded
\* number of steps (every step lowers StepsLeft), and returns a complete dict.
C17_SweepCompletes ==
    /\ [](pc # "error" /\ CanStep /\ (Returned => CompleteBundle)
            /\ (StepsLeft = 0 => Returned))
    /\ [][StepsLeft' < StepsLeft]_vars

C17_Witness ==
    /\ Returned
    /\ CompleteBundle
    /\ plot_option \notin 0..4
    /\ \E k \in 1..n_vars : CountIn(k, 1..n_samples) = 0
    /\ \E k \in 1..n_vars : CountIn(k, 1..n_samples) = 1
    /\ \E k \in 1..n_vars :
        /\ CountIn(k, ClassSamples(1)) = 0
        /\ CountIn(k, ClassSamples(2)) = 2

\* a library routine was called during the run and raised
RoutineRaised ==
    \/ "multipletests" \in faults
    \/ /\ "f_oneway" \in faults
       /\ \E k \in 1..n_vars : ~FewLabels(k)
    \/ /\ "ttest_ind" \in faults
       /\ \E k \in 1..n_vars : ~FewLabels(k) /\ FullPairs(k) # {}

\* C18 as claimed: an unexpected exception of a statistical routine, the
\* pairwise t test included, aborts the whole analysis: no dict is returned
\* after a routine raised, and none in which the result of a pair is missing.
C18_FailuresAbort ==
    Returned =>
        /\ ~RoutineRaised
        /\ \A k \in 1..n_vars :
               ~FewLabels(k) =>
                   Len(all_multicomparisons[k]) = Cardinality(FullPairs(k))
----------------------------------------------------------------------------
(* The request: parse_uploaded_file, then analyze *)

\* a string is the sequence of its code points
Str1 == <<49>>
Str12 == <<49, 50>>
Str2 == <<50>>
StrB == <<66>>
Stra == <<97>>

StrLabels == {Str1, Str12, Str2, StrB, Stra}

IntLabels == {1, 2, 3}

\* the labels 1.0, 1.5 and 2.5 of a column of floats
FloatLabels == {One, Flt(3, 2), Flt(5, 2)}

\* astype(int) of a finite float: the fraction is cut off
astype_int(x) == Sign(x[1]) * (Abs(x[1]) \div x[2])

\* rows of the uploaded files
NRows == 4

\* Python's < on str: by code point, a proper prefix first
str_lt(a, b) ==
    \E k \in 1..Len(b) :
        /\ k - 1 <= Len(a)
        /\ \A j \in 1..(k - 1) : a[j] = b[j]
        /\ \/ k = Len(a) + 1
           \/ k <= Len(a) /\ a[k] < b[k]

\* pd.to_numeric(errors='coerce') is not NaN: here a string of digits
is_numeric(str) == Len(str) > 0 /\ \A k \in DOMAIN str : str[k] \in 48..57

RECURSIVE to_int(_)
\* the integer a string of digits is converted to
to_int(str) ==
    IF str = <<>> THEN 0
    ELSE 10 * to_int(SubSeq(str, 1, Len(str) - 1)) + (str[Len(str)] - 48)

\* series.unique(): the distinct values in order of first appearance
series_unique(values) ==
    LET firsts == {k \in DOMAIN values :
                      \A j \in 1..(k - 1) : values[j] # values[k]}
    IN  [n \in 1..Cardinality(firsts) |->
            values[CHOOSE k \in firsts :
                       Cardinality({j \in firsts : j < k}) = n - 1]]

\* sorted left out: the values in order of first appearance
sorted_as_found(unique_vals) == unique_vals

\* sorted(unique_vals)
sorted(unique_vals) ==
    LET S == {unique_vals[k] : k \in DOMAIN unique_vals}
    IN  [n \in 1..Cardinality(S) |->
            CHOOSE v \in S : Cardinality({u \in S : str_lt(u, v)}) = n - 1]

\* lines 536-562
_convert_to_class_labels(ser) ==
    IF ser.dtype = "int64" THEN ser.values
    ELSE IF ser.dtype = "float64"
    THEN [k \in DOMAIN ser.values |-> astype_int(ser.values[k])]
    ELSE IF \A k \in DOMAIN ser.values : is_numeric(ser.values[k])
    THEN [k \in DOMAIN ser.values |-> to_int(ser.values[k])]
    ELSE LET ordered == sorted(series_unique(ser.values))
             mapping == [val \in {ordered[k] : k \in DOMAIN ordered} |->
                            CHOOSE idx \in DOMAIN ordered : ordered[idx] = val]
         IN  [k \in DOMAIN ser.values |-> mapping[ser.values[k]]]

\* ~np.all(np.isnan(data), axis=1): the rows with a value in some column
valid_rows(d, n_rows) ==
    {r \in 1..n_rows : \E c \in DOMAIN d : d[c][r] # Missing}

\* seq[valid_rows]
take_rows(seq, rows) ==
    LET F[k \in 0..Len(seq)] ==
            IF k = 0 THEN <<>>
            ELSE IF k \in rows THEN Append(F[k - 1], seq[k]) ELSE F[k - 1]
    IN  F[Len(seq)]

\* the groups are not counted
validate_no_groups(d, cls) == Len(cls) >= 3 /\ Len(d) >= 2

\* lines 457-462: at least 3 samples, 2 variables and 2 groups
validate(d, cls) ==
    /\ Len(cls) >= 3
    /\ Len(d) >= 2
    /\ Len(unique(cls)) >= 2

\* lines 418-462 of parse_uploaded_file and lines 129-134 of analyze_anova:
\* the labels are converted, the empty rows removed, the matrix validated and
\* handed to analyze, or the request is answered with an error
Parse ==
    /\ pc = "parse"
    /\ LET rows == valid_rows(data, Len(series.values))
           d == [c \in DOMAIN data |-> take_rows(data[c], rows)]
           cls == take_rows(_convert_to_class_labels(series), rows)
       IN  /\ data' = d
           /\ classes' = cls
           /\ pc' = IF validate(d, cls) THEN "sweep" ELSE "error"
    /\ UNCHANGED <<fdr_threshold, i, p_values, f_statistics, effect_sizes,
                   all_multicomparisons, bonferroni_sig, benjamini_sig,
                   fdr_corrected, results_table, plot_option,
                   significant_vars, bundle, faults, series, other, assistant_vars>>

NextRequest == Parse \/ Sweep \/ Correct \/ Assemble

\* the matrices of the uploaded files: no variable; one variable; two
\* variables; two variables with an empty row; with two empty rows
RequestMatrices ==
    { <<>>,
      <<ColumnZ>>,
      <<ColumnZ, ColumnO>>,
      <<ColumnG, ColumnL>>,
      <<ColumnG, ColumnG>> }

\* the class columns: integers, floats, or strings
RequestSeries ==
    [dtype : {"int64"}, values : [1..NRows -> IntLabels]]
        \cup [dtype : {"float64"}, values : [1..NRows -> FloatLabels]]
        \cup [dtype : {"object"}, values : [1..NRows -> StrLabels]]

InitRequest ==
    /\ pc = "parse"
    /\ fdr_threshold = Flt(1, 20)
    /\ plot_option = 3
    /\ faults = {}
    /\ series \in RequestSeries
    /\ data \in RequestMatrices
    /\ classes = <<>>
    /\ other = NoRequest
    /\ StartOfRun
    /\ NoAssistant

SpecRequest == InitRequest /\ [][NextRequest]_vars

\* parse_uploaded_file has run
Parsed == pc # "parse"

\* the rows that are left belong to fewer than 2 groups
FewGroups == Len(unique(classes)) < 2

\* C19: a request whose labels hold fewer than 2 distinct groups, or whose
\* matrix has no variable, is answered with an error before analyze is
\* entered, and no dict is ever returned for it.
C19_StructuralAbort ==
    Parsed /\ (FewGroups \/ n_vars = 0) => pc = "error" /\ bundle = <<>>

C19_Witness ==
    /\ pc = "error"
    /\ FewGroups
    /\ n_vars >= 2
    /\ Len(classes) >= 3

\* the class column holds strings that are not all numbers
Categorical ==
    /\ series.dtype = "object"
    /\ \E k \in DOMAIN series.values : ~is_numeric(series.values[k])

\* the orders the rows of a file can be in
RowOrders(n) == {f \in [1..n -> 1..n] : {f[k] : k \in 1..n} = 1..n}

\* C20: for categorical strings, _convert_to_class_labels gives the k-th
\* smallest distinct value the label k: the labels are exactly 1..m for m
\* distinct values, a smaller string has a smaller label, the labels follow
\* the rows under any reordering of the rows, and these are the labels the
\* parser hands on for the rows it keeps.
C20_SortedLabelMapping ==
    /\ [](Categorical =>
            LET values == series.values
                labels == _convert_to_class_labels(series)
                distinct == Range(values)
            IN  /\ Range(labels) = 1..Cardinality(distinct)
                /\ \A k \in DOMAIN values :
                       labels[k] =
                           1 + Cardinality({u \in distinct :
                                               str_lt(u, values[k])})
                /\ \A j, k \in DOMAIN values :
                       str_lt(values[j], values[k]) <=> labels[j] < labels[k]
                /\ \A f \in RowOrders(Len(values)) :
                       _convert_to_class_labels(
                           [dtype |-> "object",
                            values |-> [k \in DOMAIN values |-> values[f[k]]]])
                           = [k \in DOMAIN values |-> labels[f[k]]])
    /\ [][pc = "parse" /\ Categorical =>
              classes' = take_rows(_convert_to_class_labels(series),
                                   valid_rows(data, Len(series.values)))]_vars

C20_Witness ==
    /\ Returned
    /\ Categorical
    /\ series.values = <<Str2, Str12, Stra, StrB>>
    /\ classes = <<2, 1, 4, 3>>
----------------------------------------------------------------------------
(* Frame of the per-variable results *)

\* what the sweep appended for column k
ResultOf(k) ==
    [p_val |-> p_values[k],
     f_stat |-> f_statistics[k],
     effect |-> effect_sizes[k],
     multicomp |-> all_multicomparisons[k]]

\* the matrix with the columns other than k changed: emptied, filled with a
\* value, or holding a value exactly in the rows where column k holds none
ChangedElsewhere(k) ==
    { [c \in 1..n_vars |->
          IF c = k THEN data[k]
          ELSE [s \in 1..n_samples |->
                   CASE how = "empty" -> Missing
                     [] how = "full" -> <<2>>
                     [] OTHER -> IF data[k][s] = Missing THEN <<1>>
                                                         ELSE Missing]] :
      how \in {"empty", "full", "complement"} }

\* C21: the nominal p-value, the F statistic, the effect size and the
\* pairwise entries of a variable depend on its own column and the class
\* labels only: they are what the analysis of that column alone gives, the
\* matrix with the other columns changed (to or from NaN included) gives the
\* same (compared when the sweep has just processed the column), and the
\* effect size is computed over every sample that holds a value in the
\* column, whatever the other columns hold in its row.
C21_PerVariableDeletion ==
    \A k \in Processed :
        /\ ResultOf(k) \in analyze_variable(<<data[k]>>, classes, 1)
        /\ (pc = "sweep" /\ k = Len(p_values)) =>
               \A d \in ChangedElsewhere(k) :
                   analyze_variable(d, classes, k)
                       = analyze_variable(data, classes, k)
        /\ ~FewLabels(k) => effect_sizes[k] = EtaSquared(k)

C21_Witness ==
    /\ Returned
    /\ n_vars >= 2
    /\ data[1][1] # Missing /\ data[2][1] = Missing
    /\ IsFinite(f_statistics[1]) /\ f_statistics[1] # Zero
    /\ effect_sizes[1] # Zero
    /\ \E k \in 2..n_vars :
        /\ all_multicomparisons[k] # <<>>
        /\ \E c \in 1..n_vars, s \in 1..n_samples :
               data[c][s] = Missing /\ data[k][s] # Missing
----------------------------------------------------------------------------
(* Two requests in flight *)

\* the analyzer and the locals of the request that is running
Locals ==
    [pc |-> pc, fdr_threshold |-> fdr_threshold, data |-> data,
     classes |-> classes, i |-> i, p_values |-> p_values,
     f_statistics |-> f_statistics, effect_sizes |-> effect_sizes,
     all_multicomparisons |-> all_multicomparisons,
     bonferroni_sig |-> bonferroni_sig, benjamini_sig |-> benjamini_sig,
     fdr_corrected |-> fdr_corrected, results_table |-> results_table,
     plot_option |-> plot_option, significant_vars |-> significant_vars,
     bundle |-> bundle, series |-> series]

\* one analyzer for all requests: the threshold the last request configured
analyzer_threshold_shared(current, own) == current

\* app.py line 133: each request constructs its own AnovaAnalyzer, so the
\* request that resumes finds the threshold it configured
analyzer_threshold(current, own) == own

\* the running request is suspended and the other one resumes
Switch ==
    /\ other # NoRequest
    /\ other' = Locals
    /\ pc' = other.pc
    /\ fdr_threshold' = analyzer_threshold(fdr_threshold, other.fdr_threshold)
    /\ data' = other.data
    /\ classes' = other.classes
    /\ i' = other.i
    /\ p_values' = other.p_values
    /\ f_statistics' = other.f_statistics
    /\ effect_sizes' = other.effect_sizes
    /\ all_multicomparisons' = other.all_multicomparisons
    /\ bonferroni_sig' = other.bonferroni_sig
    /\ benjamini_sig' = other.benjamini_sig
    /\ fdr_corrected' = other.fdr_corrected
    /\ results_table' = other.results_table
    /\ plot_option' = other.plot_option
    /\ significant_vars' = other.significant_vars
    /\ bundle' = other.bundle
    /\ series' = other.series
    /\ UNCHANGED <<faults, assistant_vars>>

NextPair == Sweep \/ Correct \/ Assemble \/ Switch

\* a request at the entry of analyze
RequestAt(threshold, option, d, cls) ==
    [pc |-> "sweep", fdr_threshold |-> threshold, data |-> d,
     classes |-> cls, i |-> 1, p_values |-> <<>>, f_statistics |-> <<>>,
     effect_sizes |-> <<>>, all_multicomparisons |-> <<>>,
     bonferroni_sig |-> <<>>, benjamini_sig |-> <<>>, fdr_corrected |-> <<>>,
     results_table |-> <<>>, plot_option |-> option,
     significant_vars |-> <<>>, bundle |-> <<>>,
     series |-> [dtype |-> "int64", values |-> cls]]

\* two requests on different matrices, thresholds and policy codes
InitPair ==
    /\ pc = "sweep"
    /\ fdr_threshold \in {Flt(1, 20), Flt(1, 2)}
    /\ plot_option = 3
    /\ classes = PoolClasses
    /\ data = <<ColumnO, ColumnZ>>
    /\ series = [dtype |-> "int64", values |-> classes]
    /\ faults = {}
    /\ other \in {RequestAt(One, 2, <<ColumnG, ColumnO>>, PoolClasses),
                   RequestAt(One, 1, <<ColumnE, ColumnS>>, ColumnClasses)}
    /\ StartOfRun
    /\ NoAssistant

SpecPair == InitPair /\ [][NextPair]_vars

RECURSIVE sweeps(_, _, _)
\* the records the loop may have appended after n iterations
sweeps(d, cls, n) ==
    IF n = 0 THEN {<<>>}
    ELSE {Append(done, r) : done \in sweeps(d, cls, n - 1),
                            r \in analyze_variable(d, cls, n)}

\* lines 22-180: the dicts analyze may return for these inputs when it runs
\* alone; its methods read the threshold of the analyzer (self)
analyze(d, cls, option) ==
    UNION {
        LET n == Len(d)
            pvals == [k \in 1..n |-> rs[k].p_val]
            fstats == [k \in 1..n |-> rs[k].f_stat]
            effects == [k \in 1..n |-> rs[k].effect]
            lists == [k \in 1..n |-> rs[k].multicomp]
            bonf == bonferroni_flags(pvals, fdr_threshold)
        IN  UNION {
                LET table == build_results(pvals, mt.pvals_corrected,
                                           mt.reject, effects, fstats, n)
                    selection == _get_significant_vars(table, option,
                                                       mt.reject)
                IN  {[results |-> table,
                      multicomparison |-> flatten(lists),
                      global_stats |-> _compute_global_stats(d),
                      group_stats |-> _compute_group_stats(d, cls),
                      boxplot_data |->
                          _compute_boxplots_per_group(d, cls,
                                                      top_four(selection)),
                      overview_data |-> overview(pvals, mt.reject, bonf,
                                                 sorted_indices),
                      summary |->
                          [summary_of(pvals, mt.reject, bonf)
                               EXCEPT !.total_variables = n,
                                      !.num_groups = Len(unique(cls))]] :
                     sorted_indices \in ArgSorts(pvals)} :
                mt \in multipletests(pvals, fdr_threshold)} :
        rs \in sweeps(d, cls, Len(d))}

\* the inputs of a request: the matrix, the labels, the analyzer's threshold
\* and the policy code
InputsOf(r) == <<r.data, r.classes, r.fdr_threshold, r.plot_option>>

\* C22: analyze keeps no state across calls and never modifies the matrix,
\* the labels or the analyzer's threshold: under any interleaving of two
\* requests, every step leaves the inputs of both requests as they were,
\* and the request that returns, returns a dict that analyze gives for its
\* inputs when it runs alone.
C22_NoCrossCallState ==
    /\ [](Returned => bundle \in analyze(data, classes, plot_option))
    /\ [][{InputsOf(Locals)', InputsOf(other)'}
              = {InputsOf(Locals), InputsOf(other)}]_vars

C22_Witness ==
    /\ Returned
    /\ other.pc = "done"
    /\ fdr_threshold # other.fdr_threshold
    /\ data # other.data
    /\ bundle.summary.benjamini_significant
           # other.bundle.summary.benjamini_significant
----------------------------------------------------------------------------
(* The flattened comparisons *)

\* the mean of the valid values of class c in column k
ClassMean(k, c) ==
    Flt(ValueSum(k, SamplesOf(k, c)), Cardinality(SamplesOf(k, c)))

\* entry a comes before entry b: by variable, then by groupX, then by groupY
EntryBefore(a, b) ==
    \/ a.variableIndex < b.variableIndex
    \/ /\ a.variableIndex = b.variableIndex
       /\ \/ a.comp.groupX < b.comp.groupX
          \/ a.comp.groupX = b.comp.groupX /\ a.comp.groupY < b.comp.groupY

\* C23: in 'multicomparison' every entry has groupX < groupY, the entries
\* are in strictly ascending order of (variable index, groupX, groupY), so
\* that no triple appears twice, and mean_diff is the mean of the valid
\* values of groupX minus the mean of the valid values of groupY.
C23_ComparisonsOrdered ==
    Returned =>
        LET table == bundle.multicomparison
        IN  /\ \A e \in 1..Len(table) :
                   /\ table[e].comp.groupX < table[e].comp.groupY
                   /\ table[e].variableIndex \in 1..n_vars
                   /\ table[e].comp.mean_diff =
                          FSub(ClassMean(table[e].variableIndex,
                                         table[e].comp.groupX),
                               ClassMean(table[e].variableIndex,
                                         table[e].comp.groupY))
            /\ \A e \in 1..(Len(table) - 1) :
                   EntryBefore(table[e], table[e + 1])

C23_Witness ==
    /\ Returned
    /\ Len(bundle.multicomparison) = 4
    /\ bundle.multicomparison[1].variableIndex = 1
    /\ bundle.multicomparison[2].variableIndex = 2
    /\ bundle.multicomparison[3].comp.groupX = 1
    /\ bundle.multicomparison[4].comp.groupX = 2
    /\ bundle.multicomparison[2].comp.mean_diff # Zero
----------------------------------------------------------------------------
(* The overview *)

\* the positions 1..k (0..k-1 in the source)
Prefix(k) == [e \in 1..k |-> e]

\* C24: in overview_data the positions of the BH-significant and of the
\* Bonferroni-significant variables in the ascending order of the nominal
\* p-values are each the first k positions, however equal p-values are
\* ordered; and when a variable is BH-significant, the BH-significant
\* variables are exactly those with a nominal p <= benjamini_threshold.
C24_SignificantPrefix ==
    Returned =>
        LET ov == bundle.overview_data
        IN  /\ ov.benjamini_indices = Prefix(Len(ov.benjamini_indices))
            /\ ov.bonferroni_indices = Prefix(Len(ov.bonferroni_indices))
            /\ Len(ov.benjamini_indices) = count_true(benjamini_sig)
            /\ Len(ov.bonferroni_indices) = count_true(bonferroni_sig)
            /\ (\E v \in 1..n_vars : bundle.results[v].benjamini) =>
                   \A v \in 1..n_vars :
                       bundle.results[v].benjamini <=>
                           FLe(bundle.results[v].pValue, ov.benjamini_threshold)

C24_Witness ==
    /\ Returned
    /\ Len(bundle.overview_data.benjamini_indices) \in 2..(n_vars - 1)
    /\ Len(bundle.overview_data.bonferroni_indices) \in 1..(n_vars - 1)
    /\ \E j, k \in 1..n_vars :
        /\ j # k
        /\ p_values[j] = p_values[k]
        /\ benjamini_sig[j]
    /\ \E j, k \in 1..n_vars :
        /\ j # k
        /\ p_values[j] = p_values[k]
        /\ ~benjamini_sig[j]
----------------------------------------------------------------------------
(* The limits of the boxplots *)

\* the raw values the groups of a boxplot entry retain
RetainedValues(entry) ==
    UNION {Range(entry.groups[g].values) : g \in 1..Len(entry.groups)}

\* C25: for every variable of boxplot_data the lower limit is at most the
\* upper limit and every value a group retains lies between them, whatever
\* the signs of the values; with no value retained the limits are [0, 1].
C25_LimitsEnclose ==
    Returned =>
        \A e \in 1..Len(bundle.boxplot_data) :
            LET entry == bundle.boxplot_data[e]
            IN  /\ FLe(entry.y_limits.min, entry.y_limits.max)
                /\ \A v \in RetainedValues(entry) :
                       /\ FLe(entry.y_limits.min, FInt(v))
                       /\ FLe(FInt(v), entry.y_limits.max)
                /\ RetainedValues(entry) = ValuesIn(entry.variable,
                                                     1..n_samples)
                /\ RetainedValues(entry) = {} =>
                       entry.y_limits = [min |-> Zero, max |-> One]

C25_Witness ==
    /\ Returned
    /\ \E a, b, c, d \in 1..Len(bundle.boxplot_data) :
        /\ RetainedValues(bundle.boxplot_data[a]) = {}
        /\ RetainedValues(bundle.boxplot_data[b]) = {0 - 2, 0 - 1}
        /\ RetainedValues(bundle.boxplot_data[c]) = {0}
        /\ RetainedValues(bundle.boxplot_data[d]) = {0 - 1, 0, 1}
----------------------------------------------------------------------------
(* Distinct labels *)

\* the parser kept every row of the file
AllRowsKept == Parsed /\ Len(classes) = Len(series.values)

\* C26 as claimed: two samples get the same integer label exactly when
\* their original labels are equal, for columns of integers, of other
\* numbers and of strings, so that the groups analysed are as many as the
\* distinct original labels.
C26_LabelsInjective ==
    AllRowsKept =>
        /\ \A j, k \in DOMAIN classes :
               classes[j] = classes[k] <=> series.values[j] = series.values[k]
        /\ Len(unique(classes)) = Cardinality(Range(series.values))
----------------------------------------------------------------------------
(* The summary *)

\* C27: in the returned summary bonferroni_significant <=
\* benjamini_significant <= total_variables, benjamini_significant is the
\* number of result records flagged 'benjamini', and with a threshold of at
\* most 0.05 benjamini_significant <= nominal_significant.
C27_SummaryCounts ==
    Returned =>
        LET summary == bundle.summary
        IN  /\ summary.bonferroni_significant <= summary.benjamini_significant
            /\ summary.benjamini_significant <= summary.total_variables
            /\ summary.total_variables = Len(bundle.results)
            /\ summary.benjamini_significant =
                   Cardinality({k \in 1..Len(bundle.results) :
                                   bundle.results[k].benjamini})
            /\ FLe(fdr_threshold, Flt(1, 20)) =>
                   summary.benjamini_significant <= summary.nominal_significant

C27_Witness ==
    /\ Returned
    /\ 1 <= bundle.summary.bonferroni_significant
    /\ bundle.summary.bonferroni_significant
           < bundle.summary.benjamini_significant
    /\ bundle.summary.benjamini_significant < bundle.summary.total_variables
    /\ bundle.summary.nominal_significant
           < bundle.summary.benjamini_significant
----------------------------------------------------------------------------
(* The assistant's memory: ai_assistant, one instance for the process *)

\* the history keeps whole user/assistant pairs: 50 = 2 * 25 messages
MaxPairs == 2

HistoryCap == 2 * MaxPairs

\* messages added to the histories between two clear_context calls
MaxAdded == 6

\* get_chat_history's default limit
DefaultLimit == 20

\* the window of the history chat sends to the model
ContextWindow == 10

ContextPrefix == <<"c", "h", "e", "m", "o", "s", "t", "a", "t", "s", ":",
                   "c", "o", "n", "t", "e", "x", "t", ":">>

ChatPrefix == <<"c", "h", "e", "m", "o", "s", "t", "a", "t", "s", ":",
                "c", "h", "a", "t", ":">>

\* two file ids, as strings
FileA == <<"a">>

FileB == <<"c", "h", "a", "t", ":", "a">>

FileIds == {FileA, FileB}

Roles == {"user", "assistant"}

AnalysisTypes == {"anova", "pca"}

Limits == {0, 1, 3, DefaultLimit}

_get_file_key(file_id) == ContextPrefix \o file_id

_get_chat_key(file_id) == ChatPrefix \o file_id

\* dict.get(key, default)
dict_get(dict, key, default) ==
    IF key \in DOMAIN dict THEN dict[key] ELSE default

\* dict[key] = value
dict_set(dict, key, value) ==
    [k \in DOMAIN dict \cup {key} |-> IF k = key THEN value ELSE dict[k]]

\* dict.pop(key, None)
dict_pop(dict, key) == [k \in DOMAIN dict \ {key} |-> dict[k]]

\* list[start:], with Python's reading of a negative start
slice_from(list, start) ==
    LET first == IF start < 0 THEN IF Len(list) + start < 0
                                   THEN 0
                                   ELSE Len(list) + start
                 ELSE IF start > Len(list) THEN Len(list) ELSE start
    IN  SubSeq(list, first + 1, Len(list))

None == [none |-> TRUE]

get_analysis_context(dict, file_id) ==
    dict_get(dict, _get_file_key(file_id), None)

get_chat_history(dict, file_id, limit) ==
    slice_from(dict_get(dict, _get_chat_key(file_id), <<>>), 0 - limit)

kept_odd(history) == slice_from(history, 0 - (HistoryCap - 1))

\* the messages add_to_chat_history keeps
kept(history) == slice_from(history, 0 - HistoryCap)

add_to_chat_history(dict, file_id, role, content) ==
    LET key == _get_chat_key(file_id)
        appended == Append(dict_get(dict, key, <<>>),
                           [role |-> role, content |-> content])
    IN  dict_set(dict, key, kept(appended))

\* the history and the context the memory holds for a file
HistoryOf(file_id) == dict_get(_memory_fallback, _get_chat_key(file_id), <<>>)

ContextOf(file_id) == get_analysis_context(_memory_fallback, file_id)

\* the messages added so far, over all files
Added == Len(history_log[FileA]) + Len(history_log[FileB])

\* the content of the next message of a file: messages are numbered
NextContent(file_id) == Len(history_log[file_id]) + 1

\* a call that returned a value, and a chat that returned a warning
Result(op, file_id, value) ==
    [op |-> op, file_id |-> file_id, warning |-> "", value |-> value]

Warning(file_id, warning) ==
    [op |-> "chat", file_id |-> file_id, warning |-> warning, value |-> None]

StoreAnalysisContext ==
    \E file_id \in FileIds, analysis_type \in AnalysisTypes :
        /\ pc = "assistant"
        /\ _memory_fallback' =
               dict_set(_memory_fallback, _get_file_key(file_id),
                        [type |-> analysis_type])
        /\ chat_result' = Result("store_analysis_context", file_id, None)
        /\ UNCHANGED <<client, history_log>>

GetChatHistory ==
    \E file_id \in FileIds, limit \in Limits :
        /\ pc = "assistant"
        /\ chat_result' =
               [op |-> "get_chat_history", file_id |-> file_id,
                warning |-> "", limit |-> limit,
                value |-> get_chat_history(_memory_fallback, file_id, limit)]
        /\ UNCHANGED <<client, _memory_fallback, history_log>>

AddToChatHistory ==
    \E file_id \in FileIds, role \in Roles :
        /\ pc = "assistant"
        /\ Added < MaxAdded
        /\ _memory_fallback' =
               add_to_chat_history(_memory_fallback, file_id, role,
                                   NextContent(file_id))
        /\ history_log' =
               [history_log EXCEPT
                    ![file_id] = Append(@, [role |-> role,
                                            content |-> NextContent(file_id)])]
        /\ chat_result' = Result("add_to_chat_history", file_id, None)
        /\ UNCHANGED client

unanswered_recorded(dict, file_id, user_message) ==
    add_to_chat_history(dict, file_id, "user", user_message)

\* what chat leaves in the memory when the call of the model raises
unanswered(dict, file_id, user_message) == dict

\* what the call of the model does: a reply, an empty reply (recorded as
\* the placeholder 0), an exception
Completions == {"reply", "empty", "raises"}

Chat ==
    \E file_id \in FileIds, completion \in Completions :
        LET user_message == NextContent(file_id)
            assistant_message ==
                IF completion = "empty" THEN 0 ELSE NextContent(file_id) + 1
            history == get_chat_history(_memory_fallback, file_id,
                                        DefaultLimit)
            messages == slice_from(history, 0 - ContextWindow)
            with_user == add_to_chat_history(_memory_fallback, file_id,
                                             "user", user_message)
        IN  /\ pc = "assistant"
            /\ Added + 2 <= MaxAdded
            /\ IF ~client
               THEN /\ chat_result' = Warning(file_id, "not configured")
                    /\ UNCHANGED <<_memory_fallback, history_log>>
               ELSE IF completion = "raises"
               THEN /\ chat_result' = Warning(file_id, "error")
                    /\ _memory_fallback' =
                           unanswered(_memory_fallback, file_id, user_message)
                    /\ UNCHANGED history_log
               ELSE /\ _memory_fallback' =
                           add_to_chat_history(with_user, file_id,
                                               "assistant", assistant_message)
                    /\ history_log' =
                           [history_log EXCEPT
                                ![file_id] =
                                    @ \o <<[role |-> "user",
                                            content |-> user_message],
                                           [role |-> "assistant",
                                            content |-> assistant_message]>>]
                    /\ chat_result' =
                           Result("chat", file_id, assistant_message)
            /\ UNCHANGED client

ClearContext ==
    \E file_id \in FileIds :
        /\ pc = "assistant"
        /\ _memory_fallback' =
               dict_pop(dict_pop(_memory_fallback, _get_file_key(file_id)),
                        _get_chat_key(file_id))
        /\ history_log' = [history_log EXCEPT ![file_id] = <<>>]
        /\ chat_result' = Result("clear_context", file_id, None)
        /\ UNCHANGED client

engine_vars == <<pc, fdr_threshold, data, classes, i, p_values, f_statistics,
                 effect_sizes, all_multicomparisons, bonferroni_sig,
                 benjamini_sig, fdr_corrected, results_table, plot_option,
                 significant_vars, bundle, faults, series, other>>

\* every call the class offers
NextAssistant ==
    /\ \/ StoreAnalysisContext
       \/ GetChatHistory
       \/ AddToChatHistory
       \/ Chat
       \/ ClearContext
    /\ UNCHANGED engine_vars

\* the calls of the application that write the memory
NextChat ==
    /\ \/ StoreAnalysisContext
       \/ Chat
       \/ ClearContext
    /\ UNCHANGED engine_vars

\* the instance after __init__, with or without an API key, when no
\* analysis is running
InitAssistant ==
    /\ pc = "assistant"
    /\ fdr_threshold = Flt(1, 20)
    /\ data = <<>>
    /\ classes = <<>>
    /\ plot_option = 3
    /\ faults = {}
    /\ series = [dtype |-> "int64", values |-> <<>>]
    /\ other = NoRequest
    /\ StartOfRun
    /\ client \in BOOLEAN
    /\ _memory_fallback = <<>>
    /\ history_log = [file_id \in FileIds |-> <<>>]
    /\ chat_result = Result("__init__", <<>>, None)

SpecAssistant == InitAssistant /\ [][NextAssistant]_vars

SpecChat == InitAssistant /\ [][NextChat]_vars
----------------------------------------------------------------------------
(* The stored history *)

\* the n most recent of a list, oldest first
MostRecent(list, n) ==
    SubSeq(list, Len(list) - (IF n < Len(list) THEN n ELSE Len(list)) + 1,
           Len(list))

\* the stored history is the most recent messages of the file, at most the cap
HistoryIsRecent ==
    \A file_id \in FileIds :
        /\ Len(HistoryOf(file_id)) <= HistoryCap
        /\ HistoryOf(file_id) = MostRecent(history_log[file_id], HistoryCap)

\* get_chat_history was called with a limit it honours
LimitHonoured ==
    chat_result.op = "get_chat_history" =>
        /\ Len(chat_result.value) <= chat_result.limit
        /\ chat_result.value =
               MostRecent(HistoryOf(chat_result.file_id), chat_result.limit)

\* C28: after any sequence of add_to_chat_history, chat and clear_context
\* the stored history of each file holds at most the cap of messages, the
\* most recently added ones in insertion order, and get_chat_history
\* returns at most 'limit' of them, the most recent ones, oldest first.
C28_HistoryCappedAndLimited == HistoryIsRecent /\ LimitHonoured

C30_UnansweredLeavesNoTrace ==
    [][chat_result'.op = "chat" =>
           /\ ~client => chat_result'.warning = "not configured"
           /\ chat_result'.warning # "" =>
                  /\ _memory_fallback' = _memory_fallback
                  /\ chat_result'.value = None
           /\ \A file_id \in FileIds :
                  HistoryOf(file_id)' # HistoryOf(file_id) =>
                      LET history == HistoryOf(file_id)'
                          n == Len(history)
                      IN  /\ chat_result'.warning = ""
                          /\ n >= 2
                          /\ history[n - 1].role = "user"
                          /\ history[n].role = "assistant"
                          /\ history[n].content = chat_result'.value
                          /\ history_log'[file_id] =
                                 history_log[file_id]
                                     \o <<history[n - 1], history[n]>>]_vars

C30_Witness ==
    /\ client
    /\ chat_result.op = "chat"
    /\ chat_result.warning = "error"
    /\ HistoryOf(chat_result.file_id) # <<>>
    /\ ContextOf(chat_result.file_id) # None
====
